---- MODULE Spec2Model ----
(***************************************************************************)
(* Verification model of the voice-dictation utility:                      *)
(*   - InputManager      (src/core/input_manager.py)   : SpecInput,        *)
(*                                                       SpecKeys          *)
(*   - GeminiFormatter   (src/llm/gemini_formatter.py) : SpecFormat        *)
(*   - YubiIrazu pipeline + AudioCapture (src/main.py,                     *)
(*     src/core/audio_capture.py)                      : SpecApp           *)
(* Wall-clock time is counted in ticks of 100 ms.                          *)
(***************************************************************************)
EXTENDS Integers, Sequences, FiniteSets, TLC

\* InputManager
VARIABLES state, last_hf_time, now, log
\* the "hotkeys" settings and the hooks InputManager.start has registered
VARIABLES hotkeys, hooks
\* GeminiFormatter.format_text
VARIABLES raw_text, model_name, f_pc, model, fb_idx, attempt, delay, result,
          calls, procs, last_wait

\* AudioCapture
VARIABLES is_recording, frames, stream_open, captured
\* AudioCapture statement by statement: the owner of _lock, the positions of
\* the hook thread in start()/stop() and of the capture thread in
\* _audio_callback, the block the callback was given last and what became
\* of it, the snapshot call of the reading thread, and the blocks appended
\* since the last start()
VARIABLES lock, hook_pc, cb_pc, cb_block, rd, appended
\* YubiIrazu and its UI collaborators; published holds the last two of the
\* preview texts handed to the indicator since the last recording started
VARIABLES partial_text, is_processing, llm, indicator_visible,
          tray_is_recording, tray_title, workers, previews, sessions, fate,
          published

keyVars == <<hotkeys, hooks>>
inputVars == <<state, last_hf_time, now, log, keyVars>>
captureVars == <<lock, hook_pc, cb_pc, cb_block, rd, appended>>
audioVars == <<is_recording, frames, stream_open, captured, captureVars>>
appVars == <<partial_text, is_processing, llm, indicator_visible,
             tray_is_recording, tray_title, workers, previews, sessions, fate,
             published>>
fmtVars == <<raw_text, model_name, f_pc, model, fb_idx, attempt, delay, result,
             calls, procs, last_wait>>
vars == <<inputVars, fmtVars, audioVars, appVars>>

\* ------------------------------------------------------------------------
\* Bounds of the model
\* ------------------------------------------------------------------------
\* number of key events delivered to the InputManager in SpecInput
MaxEvents == 4
\* number of 100 ms clock ticks that elapse after start-up
MaxTicks == 6
\* number of blocks the capture device delivers per recording in SpecApp
MaxFrames == 5
\* number of recordings started in SpecApp
MaxSessions == 2
\* number of 100 ms clock ticks that elapse in SpecApp
MaxAppTicks == 3

\* ------------------------------------------------------------------------
\* Values of the AudioCapture threads before anything is recorded
\* ------------------------------------------------------------------------
\* what a snapshot call gives back: None (kind "none"), an exception (kind
\* "raised") or a WAV file (kind "wav") with the fields of its header
NoWav ==
    [kind |-> "none", nchannels |-> 0, sampwidth |-> 0, framerate |-> 0,
     nframes |-> 0, payload |-> <<>>]

\* the reading thread before its first snapshot call: the call it makes,
\* where it is in it, the number of the frame list and what it found at
\* its first read, and the kind of result and the number of frames encoded
IdleReader ==
    [op |-> "none", pc |-> "done", session |-> 0, after_stop |-> FALSE,
     empty |-> FALSE, clean |-> TRUE, kind |-> "none", count |-> 0]

\* the capture thread before its first callback: the block handed to the
\* callback, the running flag as the callback read it and, once the block
\* is appended, the running flag and the position of the hook thread at the
\* moment of the append
NoBlock ==
    [block |-> <<>>, read |-> FALSE, appended |-> FALSE, running |-> FALSE,
     hook |-> "out"]

\* ------------------------------------------------------------------------
\* Values of the formatter before its first backoff sleep
\* ------------------------------------------------------------------------
\* a number that is absent from an error message
NoValue == 0 - 1

\* what a throttling error message says about waiting, in half seconds: the
\* number of its text "retry in Ns" and the number of its field retryDelay,
\* each of which can be absent
ErrorMessage(retryIn, retryDelay) ==
    [retry_in |-> retryIn, retry_delay |-> retryDelay]

\* the last backoff sleep of the backoff procedure that is running or ran
\* last: its length, what the error message said, its number among the
\* sleeps of the procedure and the base delay at the time; before the
\* first sleep of a procedure its number is 0
NoWait == [wait |-> 0, msg |-> ErrorMessage(NoValue, NoValue), k |-> 0, base |-> 0]

\* ------------------------------------------------------------------------
\* InputManager (src/core/input_manager.py)
\* ------------------------------------------------------------------------
\* class RecordingState
IDLE == "idle"
RECORDING_PTT == "recording_ptt"
RECORDING_HF == "recording_hf"
RecordingState == {IDLE, RECORDING_PTT, RECORDING_HF}

\* keyboard.KeyboardEvent.event_type
EventTypes == {"down", "up"}

\* the 0.3 s debounce window of _on_hf_event, in 100 ms ticks
DEBOUNCE == 3

\* time.time() at construction, in ticks: any wall-clock value is at least
\* one debounce window after the initial _last_hf_time = 0.0
StartTime == 3

\* _on_ptt_event without the key-repeat guard of line 77
OnPttEvent_NoRepeatGuard(st, type) ==
    IF type = "down"
    THEN [state |-> RECORDING_PTT, fired |-> <<"start">>]
    ELSE IF type = "up" /\ st = RECORDING_PTT
    THEN [state |-> IDLE, fired |-> <<"stop">>]
    ELSE [state |-> st, fired |-> <<>>]

\* _on_ptt_event with a key-up that stops any recording
OnPttEvent_StopsAnyRecording(st, type) ==
    IF type = "down"
    THEN IF st = IDLE
         THEN [state |-> RECORDING_PTT, fired |-> <<"start">>]
         ELSE [state |-> st, fired |-> <<>>]
    ELSE IF st # IDLE
    THEN [state |-> IDLE, fired |-> <<"stop">>]
    ELSE [state |-> st, fired |-> <<>>]

\* _on_ptt_event with a key-up that stops whatever the state is
OnPttEvent_UpAlwaysStops(st, type) ==
    IF type = "down"
    THEN IF st = IDLE
         THEN [state |-> RECORDING_PTT, fired |-> <<"start">>]
         ELSE [state |-> st, fired |-> <<>>]
    ELSE [state |-> IDLE, fired |-> <<"stop">>]

\* InputManager._on_ptt_event: the new state and the callbacks fired, in order
OnPttEvent(st, type) ==
    IF type = "down"
    THEN IF st = IDLE
         THEN [state |-> RECORDING_PTT, fired |-> <<"start">>]
         ELSE [state |-> st, fired |-> <<>>]
    ELSE IF type = "up"
    THEN IF st = RECORDING_PTT
         THEN [state |-> IDLE, fired |-> <<"stop">>]
         ELSE [state |-> st, fired |-> <<>>]
    ELSE [state |-> st, fired |-> <<>>]

\* the toggle at the end of _on_hf_event (lines 97-102)
HfToggle(st, t) ==
    IF st = IDLE
    THEN [state |-> RECORDING_HF, last |-> t, fired |-> <<"start">>]
    ELSE IF st = RECORDING_HF
    THEN [state |-> IDLE, last |-> t, fired |-> <<"stop">>]
    ELSE [state |-> st, last |-> t, fired |-> <<>>]

\* _on_hf_event without the debounce check of lines 92-94
OnHfEvent_NoDebounce(st, last, t, type) ==
    IF type # "down"
    THEN [state |-> st, last |-> last, fired |-> <<>>]
    ELSE HfToggle(st, t)

\* _on_hf_event without the event-type check of lines 88-89
OnHfEvent_UpToggles(st, last, t, type) ==
    IF t - last < DEBOUNCE
    THEN [state |-> st, last |-> last, fired |-> <<>>]
    ELSE HfToggle(st, t)

\* _on_hf_event with "else" in place of "elif state == RECORDING_HF"
OnHfEvent_ElseStop(st, last, t, type) ==
    IF type # "down" \/ t - last < DEBOUNCE
    THEN [state |-> st, last |-> last, fired |-> <<>>]
    ELSE IF st = IDLE
    THEN [state |-> RECORDING_HF, last |-> t, fired |-> <<"start">>]
    ELSE [state |-> IDLE, last |-> t, fired |-> <<"stop">>]

\* _on_hf_event with the timestamp of line 95 taken only when it toggles
OnHfEvent_StampOnToggle(st, last, t, type) ==
    IF type # "down" \/ t - last < DEBOUNCE \/ st = RECORDING_PTT
    THEN [state |-> st, last |-> last, fired |-> <<>>]
    ELSE HfToggle(st, t)

\* InputManager._on_hf_event: the new state, the new debounce timestamp and
\* the callbacks fired, for an event handled at time t
OnHfEvent(st, last, t, type) ==
    IF type # "down"
    THEN [state |-> st, last |-> last, fired |-> <<>>]
    ELSE IF t - last < DEBOUNCE
    THEN [state |-> st, last |-> last, fired |-> <<>>]
    ELSE HfToggle(st, t)

\* key names of the "hotkeys" settings: the defaults of lines 48-49 and a
\* name that differs from one of them by case only
KeyNames == {"right alt", "f2", "F2"}

\* str.lower()
Lower(name) == IF name = "F2" THEN "f2" ELSE name

\* the keys of the keyboard the names stand for: keyboard.hook_key takes a
\* name in either case for the same key
PhysicalKeys == {Lower(n) : n \in KeyNames}

\* hotkeys.get("push_to_talk", "right alt"), hotkeys.get("hands_free", "f2")
DefaultHotkeys == [push_to_talk |-> "right alt", hands_free |-> "f2"]

\* a hook of keyboard.hook_key: the key and the handler called for it
Hook(key, handler) == [key |-> Lower(key), handler |-> handler]

\* start() comparing the two names as they are written
Start_CaseSensitive(hk) ==
    IF hk.hands_free # hk.push_to_talk
    THEN <<Hook(hk.push_to_talk, "ptt"), Hook(hk.hands_free, "hf")>>
    ELSE <<Hook(hk.push_to_talk, "ptt")>>

\* InputManager.start: the hooks registered, in order (lines 52-62)
Start(hk) ==
    IF Lower(hk.hands_free) # Lower(hk.push_to_talk)
    THEN <<Hook(hk.push_to_talk, "ptt"), Hook(hk.hands_free, "hf")>>
    ELSE <<Hook(hk.push_to_talk, "ptt")>>

\* one handled key event, as recorded by the callbacks' observer
LogEntry(key, type, pre, preLast, post, postLast, fired) ==
    [key |-> key, type |-> type, t |-> now, pre |-> pre, pre_last |-> preLast,
     post |-> post, post_last |-> postLast, fired |-> fired]

\* InputManager.__init__
InitInput ==
    /\ state = IDLE
    /\ last_hf_time = 0
    /\ now = StartTime
    /\ log = <<>>
    /\ hotkeys = DefaultHotkeys
    /\ hooks = Start(DefaultHotkeys)
    \* format_text is not called
    /\ raw_text = <<"a">>
    /\ model_name = "gemini-2.0-flash-lite"
    /\ f_pc = "idle"
    /\ model = "gemini-2.0-flash-lite"
    /\ fb_idx = 0
    /\ attempt = 0
    /\ delay = 0
    /\ result = <<"None">>
    /\ calls = <<>>
    /\ procs = <<>>
    /\ last_wait = NoWait
    \* nothing is recorded or processed
    /\ is_recording = FALSE
    /\ frames = <<>>
    /\ stream_open = FALSE
    /\ captured = 0
    /\ lock = "free"
    /\ hook_pc = "out"
    /\ cb_pc = "idle"
    /\ cb_block = NoBlock
    /\ rd = IdleReader
    /\ appended = <<>>
    /\ partial_text = <<>>
    /\ published = <<>>
    /\ is_processing = FALSE
    /\ llm = FALSE
    /\ indicator_visible = FALSE
    /\ tray_is_recording = FALSE
    /\ tray_title = "idle"
    /\ workers = <<>>
    /\ previews = <<>>
    /\ sessions = 0
    /\ fate = <<>>

\* the hook thread delivers a push-to-talk key event to _on_ptt_event
PttEvent(type) ==
    /\ Len(log) < MaxEvents
    /\ LET r == OnPttEvent(state, type) IN
        /\ state' = r.state
        /\ log' = Append(log, LogEntry("ptt", type, state, last_hf_time,
                                       r.state, last_hf_time, r.fired))
    /\ UNCHANGED <<last_hf_time, now, keyVars, fmtVars, audioVars, appVars>>

\* the hook thread delivers a hands-free key event to _on_hf_event
HfEvent(type) ==
    /\ Len(log) < MaxEvents
    /\ LET r == OnHfEvent(state, last_hf_time, now, type) IN
        /\ state' = r.state
        /\ last_hf_time' = r.last
        /\ log' = Append(log, LogEntry("hf", type, state, last_hf_time,
                                       r.state, r.last, r.fired))
    /\ UNCHANGED <<now, keyVars, fmtVars, audioVars, appVars>>

PttDown == PttEvent("down")
PttUp == PttEvent("up")
HfDown == HfEvent("down")
HfUp == HfEvent("up")

\* 100 ms of wall-clock time pass (time.time() advances)
Tick ==
    /\ now < StartTime + MaxTicks
    /\ now' = now + 1
    /\ UNCHANGED <<state, last_hf_time, log, keyVars, fmtVars, audioVars, appVars>>

NextInput == PttDown \/ PttUp \/ HfDown \/ HfUp \/ Tick

\* ------------------------------------------------------------------------
\* InputManager with its hooks: start() and the events of the keyboard
\* ------------------------------------------------------------------------
\* number of key events of the keyboard in SpecKeys
MaxPresses == 3

\* InputManager.__init__ with any two key names in the settings
InitKeys ==
    /\ state = IDLE
    /\ last_hf_time = 0
    /\ now = StartTime
    /\ log = <<>>
    /\ hotkeys \in [push_to_talk : KeyNames, hands_free : KeyNames]
    /\ hooks = <<>>
    \* format_text is not called
    /\ raw_text = <<"a">>
    /\ model_name = "gemini-2.0-flash-lite"
    /\ f_pc = "idle"
    /\ model = "gemini-2.0-flash-lite"
    /\ fb_idx = 0
    /\ attempt = 0
    /\ delay = 0
    /\ result = <<"None">>
    /\ calls = <<>>
    /\ procs = <<>>
    /\ last_wait = NoWait
    \* nothing is recorded or processed
    /\ is_recording = FALSE
    /\ frames = <<>>
    /\ stream_open = FALSE
    /\ captured = 0
    /\ lock = "free"
    /\ hook_pc = "out"
    /\ cb_pc = "idle"
    /\ cb_block = NoBlock
    /\ rd = IdleReader
    /\ appended = <<>>
    /\ partial_text = <<>>
    /\ published = <<>>
    /\ is_processing = FALSE
    /\ llm = FALSE
    /\ indicator_visible = FALSE
    /\ tray_is_recording = FALSE
    /\ tray_title = "idle"
    /\ workers = <<>>
    /\ previews = <<>>
    /\ sessions = 0
    /\ fate = <<>>

\* InputManager.start
StartHooks ==
    /\ hooks = <<>>
    /\ hooks' = Start(hotkeys)
    /\ UNCHANGED <<state, last_hf_time, now, log, hotkeys, fmtVars, audioVars,
                   appVars>>

\* the handlers hooked on a key, in the order of their registration
HandlersOf(hs, key) ==
    LET on == SelectSeq(hs, LAMBDA h : h.key = key) IN
    [i \in 1..Len(on) |-> on[i].handler]

\* the handlers of one key event called one after the other: the state, the
\* debounce timestamp and the log they leave
RECURSIVE Dispatch(_, _, _, _, _)
Dispatch(handlers, type, st, last, lg) ==
    IF handlers = <<>>
    THEN [state |-> st, last |-> last, log |-> lg]
    ELSE IF Head(handlers) = "ptt"
    THEN LET r == OnPttEvent(st, type) IN
         Dispatch(Tail(handlers), type, r.state, last,
                  Append(lg, LogEntry("ptt", type, st, last, r.state, last,
                                      r.fired)))
    ELSE LET r == OnHfEvent(st, last, now, type) IN
         Dispatch(Tail(handlers), type, r.state, r.last,
                  Append(lg, LogEntry("hf", type, st, last, r.state, r.last,
                                      r.fired)))

\* an event of a hooked key of the keyboard reaches its handlers
KeyEvent(key, type) ==
    /\ Len(log) < MaxPresses
    /\ HandlersOf(hooks, key) # <<>>
    /\ LET r == Dispatch(HandlersOf(hooks, key), type, state, last_hf_time, log) IN
        /\ state' = r.state
        /\ last_hf_time' = r.last
        /\ log' = r.log
    /\ UNCHANGED <<now, keyVars, fmtVars, audioVars, appVars>>

KeyDown == \E key \in PhysicalKeys : KeyEvent(key, "down")
KeyUp == \E key \in PhysicalKeys : KeyEvent(key, "up")

NextKeys == StartHooks \/ KeyDown \/ KeyUp \/ Tick


\* ------------------------------------------------------------------------
\* GeminiFormatter (src/llm/gemini_formatter.py)
\* Waits and delays are counted in half seconds.
\* ------------------------------------------------------------------------
\* the models offered by the settings window for llm.model
Models == {"gemini-2.0-flash-lite", "gemini-2.0-flash", "gemini-2.5-flash",
           "gemini-1.5-flash"}

FALLBACK_MODELS == <<"gemini-2.0-flash", "gemini-1.5-flash">>

\* INITIAL_DELAY = 1.0 s
INITIAL_DELAY == 2
\* MAX_DELAY = 60.0 s
MAX_DELAY == 120
DELAY_MULTIPLIER == 2
MAX_RETRIES == 5
\* the 2 s safety margin of _parse_retry_delay
RETRY_MARGIN == 4

\* characters of a text: white space and anything else
Chars == {" ", "a"}
\* the texts used as raw transcripts and as model responses: one that trims
\* to the empty string, one that trims to itself, one that trims on both sides
Texts == {<<" ">>, <<"a">>, <<" ", "a", " ">>}
\* a Python str
IsString(s) == \A i \in 1..Len(s) : s[i] \in Chars

\* Python's None (no text is a sequence of this shape)
None == <<"None">>

\* str.strip(): leading and trailing white space removed
RECURSIVE LStrip(_)
LStrip(s) == IF s # <<>> /\ Head(s) = " " THEN LStrip(Tail(s)) ELSE s
RECURSIVE RStrip(_)
RStrip(s) ==
    IF s # <<>> /\ s[Len(s)] = " " THEN RStrip(SubSeq(s, 1, Len(s) - 1)) ELSE s
Strip(s) == RStrip(LStrip(s))

Min(a, b) == IF a < b THEN a ELSE b

\* the branches of the except clause of _send_with_exponential_backoff, in
\* the order of its if/elif chain; a response whose text is None raises
\* AttributeError on .strip() and lands in the last branch
ErrorKinds == {"throttled", "auth", "notfound", "other"}

\* random.uniform(0.5, 1.5), in halves
Jitters == {1, 2, 3}

\* the messages of throttling errors: no hint; "retry in 62.5s" with
\* retryDelay '62s'; retryDelay '63s' alone; retryDelay '62.5s' alone
ErrorMessages ==
    {ErrorMessage(NoValue, NoValue), ErrorMessage(125, 124),
     ErrorMessage(NoValue, 126), ErrorMessage(NoValue, 125)}

\* float() of the digits the pattern (\d+) matches in a number: its whole
\* seconds
WholeSeconds(halves) == (halves \div 2) * 2

\* GeminiFormatter._parse_retry_delay: the first pattern takes the number
\* after "retry in" with its fraction, the second one the leading digits of
\* retryDelay; 2 s are added; 0 when neither matches
ParseRetryDelay(msg) ==
    IF msg.retry_in # NoValue THEN msg.retry_in + RETRY_MARGIN
    ELSE IF msg.retry_delay # NoValue
    THEN WholeSeconds(msg.retry_delay) + RETRY_MARGIN
    ELSE 0

\* the wait before the next attempt (lines 110-116)
Wait(d, msg, jitter) ==
    IF ParseRetryDelay(msg) > 0
    THEN ParseRetryDelay(msg)
    ELSE Min((d * jitter) \div 2, MAX_DELAY)

\* line 123 leaving the base delay as it is
NextDelay_Unchanged(d) == d

\* the base delay of the next attempt (line 123)
NextDelay(d) == Min(d * DELAY_MULTIPLIER, MAX_DELAY)

\* the except clause with the off-by-one "attempt > MAX_RETRIES"
OnException_OneMoreRetry(kind, att) ==
    IF kind = "throttled"
    THEN IF att > MAX_RETRIES THEN "abort" ELSE "retry"
    ELSE "abort"

\* the except clause retrying unclassified errors like throttling
OnException_RetryOther(kind, att) ==
    IF kind \in {"throttled", "other"}
    THEN IF att >= MAX_RETRIES THEN "abort" ELSE "retry"
    ELSE "abort"

\* the except clause without the check of lines 105-107: a throttled call
\* is always followed by a sleep
OnException_AlwaysSleeps(kind, att) ==
    IF kind = "throttled" THEN "retry" ELSE "abort"

\* what the except clause does with an exception of a kind on attempt att:
\* sleep and retry, or abort this model (return None)
OnException(kind, att) ==
    IF kind = "throttled"
    THEN IF att >= MAX_RETRIES THEN "abort" ELSE "retry"
    ELSE IF kind = "auth" THEN "abort"
    ELSE IF kind = "notfound" THEN "abort"
    ELSE "abort"

\* "except Exception" narrowed to the API's error class
Caught_ApiErrorsOnly(kind, noText) == ~noText

\* "except Exception" catches every exception the call and .strip() raise
Caught(kind, noText) == kind \in ErrorKinds

\* "if result:" in place of "if result is not None"
IsResult_Truthy(r) == r # None /\ r # <<>>

\* "if result is not None" (lines 58 and 67)
IsResult(r) == r # None

\* the fallback loop without "if fallback == self._model_name: continue"
NextFallback_NoSkip(idx, primary) ==
    IF idx < Len(FALLBACK_MODELS) THEN idx + 1 ELSE 0

\* the for loop of lines 62-64: the position in FALLBACK_MODELS of the next
\* model to try after position idx (0: the primary), 0 when there is none
NextFallback(idx, primary) ==
    LET rest == {j \in (idx + 1)..Len(FALLBACK_MODELS) : FALLBACK_MODELS[j] # primary}
    IN  IF rest = {} THEN 0 ELSE CHOOSE j \in rest : \A k \in rest : j <= k

\* format_text with "return result or raw_text" at lines 59 and 68
AfterProcedure_EmptyToRaw(r, idx, primary, raw) ==
    IF r # None
    THEN [pc |-> "done", result |-> IF r = <<>> THEN raw ELSE r, fb_idx |-> idx]
    ELSE LET n == NextFallback(idx, primary) IN
         IF n > 0
         THEN [pc |-> "backoff", result |-> None, fb_idx |-> n]
         ELSE [pc |-> "done", result |-> raw, fb_idx |-> idx]

\* format_text after a backoff procedure returned r at fallback position idx
AfterProcedure(r, idx, primary, raw) ==
    IF IsResult(r)
    THEN [pc |-> "done", result |-> r, fb_idx |-> idx]
    ELSE LET n == NextFallback(idx, primary) IN
         IF n > 0
         THEN [pc |-> "backoff", result |-> None, fb_idx |-> n]
         ELSE [pc |-> "done", result |-> raw, fb_idx |-> idx]

\* one generate_content call as seen from outside: the model called, the
\* backoff procedure it belongs to (counted from 1), its outcome, the text of
\* the response and whether a backoff sleep followed it
Call(kind, text, slept) ==
    [model |-> model, proc |-> Len(procs), kind |-> kind, text |-> text,
     slept |-> slept]

\* GeminiFormatter.__init__ and the arguments of a format_text call
InitFormat ==
    /\ raw_text \in Texts
    /\ model_name \in Models
    /\ f_pc = "start"
    /\ model = model_name
    /\ fb_idx = 0
    /\ attempt = 0
    /\ delay = INITIAL_DELAY
    /\ result = None
    /\ calls = <<>>
    /\ procs = <<>>
    /\ last_wait = NoWait
    \* the InputManager is not involved
    /\ state = IDLE
    /\ last_hf_time = 0
    /\ now = StartTime
    /\ log = <<>>
    /\ hotkeys = DefaultHotkeys
    /\ hooks = Start(DefaultHotkeys)
    \* nothing is recorded or processed
    /\ is_recording = FALSE
    /\ frames = <<>>
    /\ stream_open = FALSE
    /\ captured = 0
    /\ lock = "free"
    /\ hook_pc = "out"
    /\ cb_pc = "idle"
    /\ cb_block = NoBlock
    /\ rd = IdleReader
    /\ appended = <<>>
    /\ partial_text = <<>>
    /\ published = <<>>
    /\ is_processing = FALSE
    /\ llm = FALSE
    /\ indicator_visible = FALSE
    /\ tray_is_recording = FALSE
    /\ tray_title = "idle"
    /\ workers = <<>>
    /\ previews = <<>>
    /\ sessions = 0
    /\ fate = <<>>

\* entry of _send_with_exponential_backoff(prompt, m)
StartProcedure(m) ==
    /\ model' = m
    /\ attempt' = 0
    /\ delay' = INITIAL_DELAY
    /\ procs' = Append(procs, m)
    /\ last_wait' = NoWait

\* _send_with_exponential_backoff returns r to format_text, which returns
\* or goes on to the next fallback model
Return(r) ==
    LET a == AfterProcedure(r, fb_idx, model_name, raw_text) IN
    /\ f_pc' = a.pc
    /\ result' = a.result
    /\ fb_idx' = a.fb_idx
    /\ IF a.pc = "backoff"
       THEN StartProcedure(FALLBACK_MODELS[a.fb_idx])
       ELSE UNCHANGED <<model, attempt, delay, procs, last_wait>>

\* format_text is entered: the backoff procedure starts on the primary model
FormatText ==
    /\ f_pc = "start"
    /\ f_pc' = "backoff"
    /\ StartProcedure(model_name)
    /\ UNCHANGED <<raw_text, model_name, fb_idx, result, calls,
                   inputVars, audioVars, appVars>>

\* generate_content succeeds with a text: line 98 returns it stripped
GenerateOk ==
    /\ f_pc = "backoff"
    /\ \E text \in Texts :
        /\ calls' = Append(calls, Call("ok", text, FALSE))
        /\ Return(Strip(text))
    /\ UNCHANGED <<raw_text, model_name, inputVars, audioVars, appVars>>

\* generate_content raises, or returns a response without text; sd is the
\* wait the message suggests, j the jitter drawn
GenerateFails(kind, noText) ==
    /\ f_pc = "backoff"
    /\ IF ~Caught(kind, noText)
       THEN /\ f_pc' = "raised"
            /\ calls' = Append(calls, Call(kind, None, FALSE))
            /\ UNCHANGED <<model, fb_idx, attempt, delay, result, procs, last_wait>>
       ELSE IF OnException(kind, attempt) = "retry"
       THEN /\ calls' = Append(calls, Call(kind, None, TRUE))
            /\ IF attempt + 1 <= MAX_RETRIES
               THEN /\ \E msg \in ErrorMessages, j \in Jitters :
                          last_wait' = [wait |-> Wait(delay, msg, j), msg |-> msg,
                                        k |-> attempt + 1, base |-> delay]
                    /\ attempt' = attempt + 1
                    /\ delay' = NextDelay(delay)
                    /\ UNCHANGED <<f_pc, model, fb_idx, result, procs>>
               ELSE Return(None)
       ELSE /\ calls' = Append(calls, Call(kind, None, FALSE))
            /\ Return(None)
    /\ UNCHANGED <<raw_text, model_name, inputVars, audioVars, appVars>>

GenerateThrottled == GenerateFails("throttled", FALSE)
GenerateAuthError == GenerateFails("auth", FALSE)
GenerateNotFound == GenerateFails("notfound", FALSE)
GenerateOtherError == GenerateFails("other", FALSE)
GenerateNoText == GenerateFails("other", TRUE)

NextFormat ==
    \/ FormatText
    \/ GenerateOk
    \/ GenerateThrottled
    \/ GenerateAuthError
    \/ GenerateNotFound
    \/ GenerateOtherError
    \/ GenerateNoText

\* ------------------------------------------------------------------------
\* AudioCapture (src/core/audio_capture.py) and the pipeline of YubiIrazu
\* (src/main.py).  A frame is one block delivered by the capture device,
\* identified by the number of its recording and its arrival number in it.
\* The hook thread runs one key handler at a time; the capture callback,
\* the final-processing tasks and the preview loops run on threads of their
\* own.
\* ------------------------------------------------------------------------
\* AudioCapture(sample_rate=16000)
SAMPLE_RATE == 16000
\* sd.InputStream(blocksize=1024): samples per frame
BLOCKSIZE == 1024
\* the 0.3 s minimum of _process_recording, in milliseconds
MIN_DURATION_MS == 300
MS_PER_SECOND == 1000

\* what GoogleFreeSTT.transcribe can return: "" on any failure, else a text
SttResults == {<<>>, <<"a">>}

\* what format_text can return for a raw text: a model's text or the raw text
FormatResults(raw) == {raw, <<"a", " ", "a">>}

\* f.shape[0]: the samples of a frame, one block of the stream
Shape0(f) == BLOCKSIZE

\* sum(f.shape[0] for f in self._frames)
RECURSIVE TotalShape(_)
TotalShape(frs) ==
    IF frs = <<>> THEN 0 ELSE Shape0(Head(frs)) + TotalShape(Tail(frs))

\* get_duration dividing the number of frames, not of samples, by the rate
GetDuration_CountsFrames(frs) ==
    IF frs = <<>> THEN 0 ELSE (Len(frs) * MS_PER_SECOND) \div SAMPLE_RATE

\* AudioCapture.get_duration, in milliseconds
GetDuration(frs) ==
    IF frs = <<>> THEN 0 ELSE (TotalShape(frs) * MS_PER_SECOND) \div SAMPLE_RATE

\* the minimum-duration check with the threshold 0.03 in place of 0.3
TooShort_WrongThreshold(ms) == ms * 10 < MIN_DURATION_MS

\* the minimum-duration check of _process_recording (line 159)
TooShort(ms) == ms < MIN_DURATION_MS

\* the single-flight guard without the check of lines 146-147
Launches_NoGuard(busy) == TRUE

\* the single-flight guard with its condition inverted
Launches_Inverted(busy) == busy

\* the single-flight guard of _on_recording_stop (lines 146-147): a task is
\* launched unless the flag says one is being processed
Launches(busy) == ~busy

\* "if audio_data is None" replaced by a check that never returns
NoAudio_Never(a) == FALSE

\* "if audio_data is None" (line 165)
NoAudio(a) == a = None

\* "if not raw_text" replaced by "if raw_text is None"
NoText_OnlyNone(t) == t = None

\* "if not raw_text" (line 172)
NoText(t) == t = <<>>

\* stage 2 entered although no LLM is configured
UsesLlm_Always(configured) == TRUE

\* "if self.llm" (line 178)
UsesLlm(configured) == configured

\* a finally block that leaves the flag set
FlagAfterFinally_Kept(busy) == busy

\* the flag after line 198
FlagAfterFinally(busy) == FALSE

\* a final-processing task as launched by _on_recording_stop for the
\* recording numbered session: its position in _process_recording, what it
\* has read (empty: get_audio_data found no frame), the calls it has made to
\* its collaborators, in order, the text it handed to output_text and
\* whether an exception reached line 194
NewWorker ==
    [session |-> sessions, pc |-> "check", seen |-> 0, audio |-> None,
     raw |-> None, text |-> None, stt |-> 0, fmt |-> 0, out |-> 0,
     trace |-> <<>>, sent |-> None, err |-> FALSE, empty |-> FALSE]

\* what becomes of a recording: whether its start() found the stream of an
\* earlier start() not yet released (overlap), whether its stop event was
\* handled, and what _on_recording_stop found and did: the flag set (busy),
\* a task's thread still alive, a task launched
Recording ==
    [overlap |-> FALSE, stopped |-> FALSE, busy |-> FALSE, alive |-> FALSE,
     launched |-> FALSE]

\* a preview loop as launched by _start_realtime_stt for the recording just
\* started: its position in periodic_stt and the text it is about to publish
NewPreview == [session |-> sessions + 1, pc |-> "sleep", text |-> None]

\* the last two preview texts handed to the indicator, after text t is
Published(pub, t) == IF Len(pub) < 2 THEN Append(pub, t) ELSE <<pub[2], t>>

\* line 220 without the comparison with the last preview
IsNew_NoCompare(t, last) == t # <<>>

\* "if text and text != self._partial_text" (line 220)
IsNew(t, last) == t # <<>> /\ t # last

\* a sequence without its k-th element (a thread that has ended)
RemoveAt(seq, k) == SubSeq(seq, 1, k - 1) \o SubSeq(seq, k + 1, Len(seq))

\* YubiIrazu.__init__ with the InputManager, the AudioCapture and the UI
InitApp ==
    /\ state = IDLE
    /\ last_hf_time = 0
    /\ now = StartTime
    /\ log = <<>>
    /\ hotkeys = DefaultHotkeys
    /\ hooks = Start(DefaultHotkeys)
    /\ is_recording = FALSE
    /\ frames = <<>>
    /\ stream_open = FALSE
    /\ captured = 0
    /\ lock = "free"
    /\ hook_pc = "out"
    /\ cb_pc = "idle"
    /\ cb_block = NoBlock
    /\ rd = IdleReader
    /\ appended = <<>>
    /\ partial_text = <<>>
    /\ published = <<>>
    /\ is_processing = FALSE
    /\ llm \in BOOLEAN
    /\ indicator_visible = FALSE
    /\ tray_is_recording = FALSE
    /\ tray_title = "idle"
    /\ workers = <<>>
    /\ previews = <<>>
    /\ sessions = 0
    /\ fate = <<>>
    \* format_text is represented by FormatResults
    /\ raw_text = <<"a">>
    /\ model_name = "gemini-2.0-flash-lite"
    /\ f_pc = "idle"
    /\ model = "gemini-2.0-flash-lite"
    /\ fb_idx = 0
    /\ attempt = 0
    /\ delay = 0
    /\ result = None
    /\ calls = <<>>
    /\ procs = <<>>
    /\ last_wait = NoWait

\* start() setting the running flag after the stream is opened and started
FlagOnStart_AfterOpen(opened) == opened

\* the running flag when start() is left, with the stream opened or with
\* the exception of lines 30-37: line 29 has set it before
FlagOnStart(opened) == TRUE

\* YubiIrazu._on_recording_start: AudioCapture.start, the preview text
\* cleared, the UI switched to recording, a preview loop launched
OnRecordingStart ==
    /\ frames' = <<>>
    /\ is_recording' = FlagOnStart(TRUE)
    /\ stream_open' = TRUE
    /\ partial_text' = <<>>
    /\ published' = <<>>
    /\ tray_is_recording' = TRUE
    /\ tray_title' = "recording"
    /\ indicator_visible' = TRUE
    /\ previews' = Append(previews, NewPreview)
    /\ sessions' = sessions + 1
    /\ captured' = 0
    /\ fate' = Append(fate, [Recording EXCEPT !.overlap = stream_open])
    /\ UNCHANGED <<is_processing, llm, workers, captureVars>>

\* YubiIrazu._on_recording_stop: AudioCapture.stop, the UI switched to
\* processing, and, unless a task is flagged as running, a task launched
OnRecordingStop ==
    /\ is_recording' = FALSE
    /\ stream_open' = FALSE
    /\ tray_is_recording' = FALSE
    /\ tray_title' = "processing"
    /\ IF Launches(is_processing)
       THEN /\ is_processing' = TRUE
            /\ workers' = Append(workers, NewWorker)
       ELSE UNCHANGED <<is_processing, workers>>
    /\ fate' = [fate EXCEPT ![sessions] =
                   [@ EXCEPT !.stopped = TRUE, !.busy = is_processing,
                             !.alive = workers # <<>>,
                             !.launched = Launches(is_processing)]]
    /\ UNCHANGED <<frames, captured, partial_text, published, llm, indicator_visible,
                   previews, sessions, captureVars>>

\* the callbacks an event handler fired, run on the hook thread
RunCallbacks(fired) ==
    IF fired = <<>> THEN UNCHANGED <<audioVars, appVars>>
    ELSE IF Head(fired) = "start" THEN OnRecordingStart
    ELSE OnRecordingStop

\* a handler that starts a recording is taken only within the bound
WithinSessions(fired) ==
    (fired # <<>> /\ Head(fired) = "start") => sessions < MaxSessions

\* _process_recording called by _on_recording_stop on the hook thread
HookWaits_Inline(tasks) == tasks # <<>>

\* whether the hook thread is held up by the tasks it launched: line 151
\* starts a daemon thread and returns, and no handler joins or waits
HookWaits(tasks) == FALSE

\* a push-to-talk key event reaches _on_ptt_event
AppPttEvent(type) ==
    LET r == OnPttEvent(state, type) IN
    /\ ~HookWaits(workers)
    /\ WithinSessions(r.fired)
    /\ state' = r.state
    /\ RunCallbacks(r.fired)
    /\ UNCHANGED <<last_hf_time, now, log, keyVars, fmtVars>>

\* a hands-free key event reaches _on_hf_event, dt ticks after the clock
\* was last read (only this handler reads the clock)
AppHfEvent(type) ==
    \E dt \in (IF type = "down" THEN {0, DEBOUNCE} ELSE {0}) :
        LET r == OnHfEvent(state, last_hf_time, now + dt, type) IN
        /\ ~HookWaits(workers)
        /\ now + dt <= StartTime + MaxAppTicks
        /\ WithinSessions(r.fired)
        /\ now' = now + dt
        /\ state' = r.state
        /\ last_hf_time' = r.last
        /\ RunCallbacks(r.fired)
        /\ UNCHANGED <<log, keyVars, fmtVars>>

AppPttDown == AppPttEvent("down")
AppPttUp == AppPttEvent("up")
AppHfDown == AppHfEvent("down")
AppHfUp == AppHfEvent("up")

\* AudioCapture._audio_callback: the device delivers a block
AudioCallback ==
    /\ stream_open
    /\ captured < MaxFrames
    /\ captured' = captured + 1
    /\ IF is_recording
       THEN frames' = Append(frames, <<sessions, captured + 1>>)
       ELSE UNCHANGED frames
    /\ UNCHANGED <<is_recording, stream_open, captureVars, inputVars, fmtVars,
                   appVars>>

WorkerStep(w, rec) ==
    /\ workers' = [workers EXCEPT ![w] = rec]
    /\ UNCHANGED <<inputVars, fmtVars, audioVars, partial_text, published, llm, previews,
                   sessions, fate>>

\* _process_recording, lines 159-161: the minimum-duration check
CheckDuration ==
    \E w \in 1..Len(workers) :
        /\ workers[w].pc = "check"
        /\ LET d == GetDuration(frames) IN
           WorkerStep(w, [workers[w] EXCEPT !.seen = d,
                            !.pc = IF TooShort(d) THEN "finally" ELSE "snapshot"])
        /\ UNCHANGED <<is_processing, indicator_visible, tray_is_recording, tray_title>>

\* lines 164-167, first half: get_audio_data finds the frame list empty and
\* returns None (line 56-57), on which the task returns, or goes on to line 58
GetAudioData ==
    \E w \in 1..Len(workers) :
        /\ workers[w].pc = "snapshot"
        /\ WorkerStep(w, IF frames = <<>>
                         THEN [workers[w] EXCEPT !.empty = TRUE,
                                 !.pc = IF NoAudio(None) THEN "finally" ELSE "stt"]
                         ELSE [workers[w] EXCEPT !.pc = "encode"])
        /\ UNCHANGED <<is_processing, indicator_visible, tray_is_recording, tray_title>>

\* line 58: _to_wav reads the frame list again; np.concatenate raises on the
\* empty list a start() in between has put there, and the exception reaches
\* line 194
EncodeSnapshot ==
    \E w \in 1..Len(workers) :
        /\ workers[w].pc = "encode"
        /\ WorkerStep(w, IF frames = <<>>
                         THEN [workers[w] EXCEPT !.err = TRUE, !.pc = "finally"]
                         ELSE [workers[w] EXCEPT !.audio = frames, !.pc = "stt"])
        /\ UNCHANGED <<is_processing, indicator_visible, tray_is_recording, tray_title>>

\* lines 171-175: the transcription call, which consumes the snapshot
Transcribe ==
    \E w \in 1..Len(workers) :
        /\ workers[w].pc = "stt"
        /\ \E t \in SttResults :
              WorkerStep(w, [workers[w] EXCEPT !.stt = @ + 1, !.raw = t, !.audio = None,
                               !.trace = Append(@, "transcribe"),
                               !.pc = IF NoText(t) THEN "finally" ELSE "format"])
        /\ UNCHANGED <<is_processing, indicator_visible, tray_is_recording, tray_title>>

\* lines 178-186: format_text when an LLM is configured, else the raw text;
\* format_text returns a text, or raises at its line 54 when the prompt
\* setting is not a string, and the exception reaches line 194
Format ==
    \E w \in 1..Len(workers) :
        /\ workers[w].pc = "format"
        /\ IF UsesLlm(llm)
           THEN \/ \E r \in FormatResults(workers[w].raw) :
                     WorkerStep(w, [workers[w] EXCEPT !.fmt = @ + 1, !.text = r,
                                      !.trace = Append(@, "format_text"),
                                      !.pc = "output"])
                \/ WorkerStep(w, [workers[w] EXCEPT !.fmt = @ + 1, !.err = TRUE,
                                    !.trace = Append(@, "format_text"),
                                    !.pc = "finally"])
           ELSE WorkerStep(w, [workers[w] EXCEPT !.text = workers[w].raw,
                                 !.pc = "output"])
        /\ UNCHANGED <<is_processing, indicator_visible, tray_is_recording, tray_title>>

\* lines 189-192: the indicator hidden and the text handed to output_text,
\* which may raise into the except clause of line 194
Output ==
    \E w \in 1..Len(workers) :
        /\ workers[w].pc = "output"
        /\ indicator_visible' = FALSE
        /\ WorkerStep(w, [workers[w] EXCEPT !.out = @ + 1, !.sent = workers[w].text,
                                            !.trace = Append(@, "output_text"),
                                            !.pc = "finally"])
        /\ UNCHANGED <<is_processing, tray_is_recording, tray_title>>

\* line 198: the single-flight flag cleared; the try block is over and what
\* the task read and called in it is no longer kept
Finally ==
    \E w \in 1..Len(workers) :
        /\ workers[w].pc = "finally"
        /\ is_processing' = FlagAfterFinally(is_processing)
        /\ WorkerStep(w, [NewWorker EXCEPT !.session = workers[w].session,
                                          !.pc = "cleanup"])
        /\ UNCHANGED <<indicator_visible, tray_is_recording, tray_title>>

\* lines 199-201: the UI restored; the task's thread ends
Cleanup ==
    \E w \in 1..Len(workers) :
        /\ workers[w].pc = "cleanup"
        /\ indicator_visible' = FALSE
        /\ tray_is_recording' = FALSE
        /\ tray_title' = "idle"
        /\ workers' = RemoveAt(workers, w)
        /\ UNCHANGED <<inputVars, fmtVars, audioVars, partial_text, published, llm, previews,
                       sessions, is_processing, fate>>

PreviewStep(p, pc) ==
    /\ previews' = IF pc = "exit" THEN RemoveAt(previews, p)
                   ELSE [previews EXCEPT ![p].pc = pc]
    /\ UNCHANGED <<inputVars, fmtVars, audioVars, is_processing, llm,
                   indicator_visible, tray_is_recording, tray_title, workers,
                   sessions, fate>>

\* periodic_stt, lines 209-216: the loop condition, the sleep and the check
\* after it; the thread ends when it reads is_recording as false, it sleeps
\* again when get_partial_audio has nothing, else it goes on to transcribe
PreviewWake ==
    \E p \in 1..Len(previews) :
        /\ previews[p].pc = "sleep"
        /\ PreviewStep(p, IF ~is_recording THEN "exit"
                          ELSE IF frames = <<>> THEN "sleep"
                          ELSE "stt")
        /\ UNCHANGED <<partial_text, published>>

\* lines 218-225: the partial transcription, published when it is new
PreviewPublish ==
    \E p \in 1..Len(previews) :
        /\ previews[p].pc = "stt"
        /\ \E t \in SttResults :
              IF IsNew(t, partial_text)
              THEN /\ partial_text' = t
                   /\ published' = Published(published, t)
              ELSE UNCHANGED <<partial_text, published>>
        /\ PreviewStep(p, "sleep")

NextApp ==
    \/ AppPttDown
    \/ AppPttUp
    \/ AppHfDown
    \/ AppHfUp
    \/ AudioCallback
    \/ CheckDuration
    \/ GetAudioData
    \/ EncodeSnapshot
    \/ Transcribe
    \/ Format
    \/ Output
    \/ Finally
    \/ Cleanup
    \/ PreviewWake
    \/ PreviewPublish

\* ------------------------------------------------------------------------
\* AudioCapture statement by statement (src/core/audio_capture.py): the
\* hook thread in start() and stop(), the capture thread in _audio_callback
\* and a thread taking snapshots.  A block stands for the 1024 samples the
\* device delivers at a time; samples are 16-bit signed integers.
\* ------------------------------------------------------------------------
\* AudioCapture(channels=1)
CHANNELS == 1
\* wf.setsampwidth(2)
SAMPLE_WIDTH == 2

\* the n-th block the device delivers (indata), in the recording numbered
\* s: no two blocks are alike, samples are positive and negative and take
\* both bytes
Block(s, n) == <<4096 * s + 258 * n, 0 - (16 * s + n)>>

\* start() without "self._frames = []"
NewFrames_Kept(old) == old

\* "self._frames = []" (line 28)
NewFrames(old) == <<>>

\* the bytes of a sample, most significant byte first
Int16Bytes_BigEndian(x) ==
    LET u == IF x < 0 THEN x + 65536 ELSE x IN <<u \div 256, u % 256>>

\* ndarray.tobytes() of one int16 sample: two's complement, little-endian
Int16Bytes(x) ==
    LET u == IF x < 0 THEN x + 65536 ELSE x IN <<u % 256, u \div 256>>

\* the frames joined last to first
RECURSIVE Concatenate_Reversed(_)
Concatenate_Reversed(frs) ==
    IF frs = <<>> THEN <<>> ELSE Concatenate_Reversed(Tail(frs)) \o Head(frs)

\* np.concatenate(frames).flatten()
RECURSIVE Concatenate(_)
Concatenate(frs) ==
    IF frs = <<>> THEN <<>> ELSE Head(frs) \o Concatenate(Tail(frs))

\* audio.tobytes()
RECURSIVE ToBytes(_)
ToBytes(samples) ==
    IF samples = <<>> THEN <<>>
    ELSE Int16Bytes(Head(samples)) \o ToBytes(Tail(samples))

\* np.concatenate raises ValueError on an empty list
Raised == [NoWav EXCEPT !.kind = "raised"]

\* AudioCapture._to_wav: the header fields the wave module writes and the
\* PCM payload
ToWav(frs) ==
    IF frs = <<>> THEN Raised
    ELSE LET data == ToBytes(Concatenate(frs)) IN
         [kind |-> "wav", nchannels |-> CHANNELS, sampwidth |-> SAMPLE_WIDTH,
          framerate |-> SAMPLE_RATE,
          nframes |-> Len(data) \div (CHANNELS * SAMPLE_WIDTH),
          payload |-> data]

\* start() and stop() entered without "with self._lock"
WithLock_Skipped(who) == "free"

\* "with self._lock" (lines 27 and 41): the owner of the lock inside
WithLock(who) == who

\* stop() without "if self._stream is not None"
HasStream_Unchecked(open) == TRUE

\* "if self._stream is not None" (line 43)
HasStream(open) == open

\* the callback with its body inside "with self._lock"
CallbackBlocked_Locking(owner) == owner # "free"

\* whether the callback, once invoked, has to wait for the lock its owner
\* holds: lines 50-52 do not take the lock
CallbackBlocked(owner) == FALSE

\* the callback without "if self.is_recording"
ShouldAppend_Always(running) == TRUE

\* "if self.is_recording" (line 50)
ShouldAppend(running) == running

\* AudioCapture.__init__: nothing recorded, no stream, the lock free
InitAudio ==
    /\ is_recording = FALSE
    /\ frames = <<>>
    /\ stream_open = FALSE
    /\ captured = 0
    /\ lock = "free"
    /\ hook_pc = "out"
    /\ cb_pc = "idle"
    /\ cb_block = NoBlock
    /\ rd = IdleReader
    /\ appended = <<>>
    /\ sessions = 0
    \* the InputManager, the formatter and the pipeline are not involved
    /\ state = IDLE
    /\ last_hf_time = 0
    /\ now = StartTime
    /\ log = <<>>
    /\ hotkeys = DefaultHotkeys
    /\ hooks = Start(DefaultHotkeys)
    /\ raw_text = <<"a">>
    /\ model_name = "gemini-2.0-flash-lite"
    /\ f_pc = "idle"
    /\ model = "gemini-2.0-flash-lite"
    /\ fb_idx = 0
    /\ attempt = 0
    /\ delay = 0
    /\ result = None
    /\ calls = <<>>
    /\ procs = <<>>
    /\ last_wait = NoWait
    /\ partial_text = <<>>
    /\ published = <<>>
    /\ is_processing = FALSE
    /\ llm = FALSE
    /\ indicator_visible = FALSE
    /\ tray_is_recording = FALSE
    /\ tray_title = "idle"
    /\ workers = <<>>
    /\ previews = <<>>
    /\ fate = <<>>

\* what a step of the hook thread leaves alone
HookStep(pc) ==
    /\ hook_pc' = pc
    /\ UNCHANGED <<captured, cb_pc, cb_block, rd, inputVars, fmtVars,
                   partial_text, published, is_processing, llm, indicator_visible,
                   tray_is_recording, tray_title, workers, previews, fate>>

\* start(), line 27: the hook thread, which calls start() only when nothing
\* is being recorded, takes the lock
StartEnter ==
    /\ hook_pc = "out"
    /\ ~is_recording
    /\ sessions < MaxSessions
    /\ lock = "free"
    /\ lock' = WithLock("hook")
    /\ HookStep("start_28")
    /\ UNCHANGED <<is_recording, frames, stream_open, sessions, appended>>

\* line 28: a new, empty frame list
StartReset ==
    /\ hook_pc = "start_28"
    /\ frames' = NewFrames(frames)
    /\ appended' = <<>>
    /\ sessions' = sessions + 1
    /\ HookStep("start_29")
    /\ UNCHANGED <<is_recording, stream_open, lock>>

\* line 29
StartFlag ==
    /\ hook_pc = "start_29"
    /\ is_recording' = TRUE
    /\ HookStep("start_30")
    /\ UNCHANGED <<frames, stream_open, sessions, lock, appended>>

\* lines 30-37: the stream created and started; callbacks can arrive
StartStream ==
    /\ hook_pc = "start_30"
    /\ stream_open' = TRUE
    /\ HookStep("start_exit")
    /\ UNCHANGED <<is_recording, frames, sessions, lock, appended>>

\* the end of the with block of start(): the lock released
StartExit ==
    /\ hook_pc = "start_exit"
    /\ lock' = "free"
    /\ HookStep("out")
    /\ UNCHANGED <<is_recording, frames, stream_open, sessions, appended>>

\* stop(), line 41: the hook thread takes the lock; stop() is called on a
\* recording, or again when nothing is being recorded
StopEnter ==
    /\ hook_pc = "out"
    /\ lock = "free"
    /\ lock' = WithLock("hook")
    /\ HookStep("stop_42")
    /\ UNCHANGED <<is_recording, frames, stream_open, sessions, appended>>

\* line 42
StopFlag ==
    /\ hook_pc = "stop_42"
    /\ is_recording' = FALSE
    /\ HookStep("stop_43")
    /\ UNCHANGED <<frames, stream_open, sessions, lock, appended>>

\* lines 43-46: when there is a stream it is stopped and closed;
\* stream.stop() returns when the capture thread is not inside the
\* callback, after which the callback is not invoked; calling stop() on
\* None would raise AttributeError out of the with block
StopStream ==
    /\ hook_pc = "stop_43"
    /\ IF HasStream(stream_open)
       THEN IF stream_open
            THEN /\ cb_pc = "idle"
                 /\ stream_open' = FALSE
                 /\ HookStep("stop_exit")
            ELSE /\ HookStep("stop_raised")
                 /\ UNCHANGED stream_open
       ELSE /\ HookStep("stop_exit")
            /\ UNCHANGED stream_open
    /\ UNCHANGED <<is_recording, frames, sessions, lock, appended>>

\* the end of the with block of stop(): the lock released
StopExit ==
    /\ hook_pc \in {"stop_exit", "stop_raised"}
    /\ lock' = "free"
    /\ HookStep("out")
    /\ UNCHANGED <<is_recording, frames, stream_open, sessions, appended>>

\* _audio_callback, line 50: the device hands a block to the callback, which
\* reads the running flag and returns when it is false; a callback that had
\* to wait for the lock would be invoked and stay blocked until it is free
CallbackCheck ==
    /\ \/ cb_pc = "idle" /\ stream_open /\ captured < MaxFrames
       \/ cb_pc = "blocked"
    /\ IF CallbackBlocked(lock)
       THEN /\ cb_pc' = "blocked"
            /\ UNCHANGED <<captured, cb_block>>
       ELSE /\ captured' = captured + 1
            /\ cb_block' = [NoBlock EXCEPT !.block = Block(sessions, captured + 1),
                                           !.read = is_recording]
            /\ cb_pc' = IF ShouldAppend(is_recording) THEN "append" ELSE "idle"
    /\ UNCHANGED <<is_recording, frames, stream_open, lock, hook_pc, rd, appended,
                   inputVars, fmtVars, appVars>>

\* line 52: the copy of the block appended to the frame list; the running
\* flag and the position of the hook thread at that moment are noted
CallbackAppend ==
    /\ cb_pc = "append"
    /\ frames' = Append(frames, cb_block.block)
    /\ appended' = Append(appended, cb_block.block)
    /\ cb_pc' = "idle"
    /\ cb_block' = [cb_block EXCEPT !.appended = TRUE, !.running = is_recording,
                                    !.hook = hook_pc]
    /\ UNCHANGED <<is_recording, stream_open, captured, lock, hook_pc, rd,
                   inputVars, fmtVars, appVars>>

\* what a step of the reading thread leaves alone
ReadStep(r) ==
    /\ rd' = r
    /\ UNCHANGED <<is_recording, frames, stream_open, captured, lock, hook_pc,
                   cb_pc, cb_block, appended, inputVars, fmtVars, appVars>>

\* a snapshot call is entered: "if not self._frames: return None" (lines
\* 56-57 and 62-63); it is noted whether stop() has returned and no start()
\* has been entered since
SnapshotCheck(op, next) ==
    /\ rd.pc = "done"
    /\ sessions > 0
    /\ ReadStep([op |-> op, pc |-> IF frames = <<>> THEN "done" ELSE next,
                 session |-> sessions,
                 after_stop |-> hook_pc = "out" /\ ~is_recording,
                 empty |-> frames = <<>>, clean |-> TRUE, kind |-> "none",
                 count |-> 0])

\* the frame list is read a second time and encoded: the call returns
\* ToWav(frames), of which the kind and the number of frames are kept; the
\* call was clean when no start() has replaced the list since the first read
SnapshotEncode(op, pc) ==
    /\ rd.op = op
    /\ rd.pc = pc
    /\ ReadStep([rd EXCEPT !.pc = "done", !.clean = (sessions = rd.session),
                           !.kind = ToWav(frames).kind, !.count = Len(frames)])

\* get_audio_data, lines 56-57
GetAllCheck == SnapshotCheck("all", "encode")
\* get_audio_data, line 58
GetAllEncode == SnapshotEncode("all", "encode")
\* get_partial_audio, lines 62-63
GetPartialCheck == SnapshotCheck("partial", "copy")
\* get_partial_audio, lines 65-66: the list copied, the copy encoded
GetPartialCopy == SnapshotEncode("partial", "copy")

NextAudio ==
    \/ StartEnter
    \/ StartReset
    \/ StartFlag
    \/ StartStream
    \/ StartExit
    \/ StopEnter
    \/ StopFlag
    \/ StopStream
    \/ StopExit
    \/ CallbackCheck
    \/ CallbackAppend
    \/ GetAllCheck
    \/ GetAllEncode
    \/ GetPartialCheck
    \/ GetPartialCopy

\* ------------------------------------------------------------------------
\* The preview loops statement by statement (src/main.py, periodic_stt):
\* key events start and stop recordings, the device delivers blocks, and
\* each preview loop takes one shared read or write at a time.  The
\* final-processing tasks share no variable with the loops and stay at
\* their first statement here.
\* ------------------------------------------------------------------------
\* what transcribe can return for a partial snapshot: "" on any failure or
\* silence, else a text, which grows as the recording goes on
PartialResults == {<<>>, <<"a">>, <<"a", "a">>}

\* the recordings, by number
Sessions == 1..(MaxSessions + 1)

\* the preview loop launched for recording s is at position pc
LoopAt(p, s, pc) == previews[p].session = s /\ previews[p].pc = pc

\* a step of a preview loop, which goes on as rec
LoopStep(p, rec) ==
    /\ previews' = [previews EXCEPT ![p] = rec]
    /\ UNCHANGED <<inputVars, fmtVars, audioVars, is_processing, llm,
                   indicator_visible, tray_is_recording, tray_title, workers,
                   sessions, fate>>

\* the thread of a preview loop ends
LoopEnd(p) ==
    /\ previews' = RemoveAt(previews, p)
    /\ UNCHANGED <<inputVars, fmtVars, audioVars, is_processing, llm,
                   indicator_visible, tray_is_recording, tray_title, workers,
                   sessions, fate>>

\* "while self.audio.is_recording" and "if not self.audio.is_recording:
\* break" (lines 209 and 211): the loop exits when it reads the flag as false
Exits(running) == ~running

\* line 209: the loop condition
LoopConditionOf(s) ==
    \E p \in 1..Len(previews) :
        /\ LoopAt(p, s, "sleep")
        /\ IF Exits(is_recording) THEN LoopEnd(p)
           ELSE LoopStep(p, [previews[p] EXCEPT !.pc = "slept"])
        /\ UNCHANGED <<partial_text, published>>

\* lines 210-212: after the sleep of 3 s the flag is read again
LoopWakeOf(s) ==
    \E p \in 1..Len(previews) :
        /\ LoopAt(p, s, "slept")
        /\ IF Exits(is_recording) THEN LoopEnd(p)
           ELSE LoopStep(p, [previews[p] EXCEPT !.pc = "snap"])
        /\ UNCHANGED <<partial_text, published>>

\* lines 214-216, get_partial_audio lines 62-63: no frame, no snapshot, and
\* the loop continues
LoopSnapshotCheckOf(s) ==
    \E p \in 1..Len(previews) :
        /\ LoopAt(p, s, "snap")
        /\ LoopStep(p, [previews[p] EXCEPT
                           !.pc = IF frames = <<>> THEN "sleep" ELSE "copy"])
        /\ UNCHANGED <<partial_text, published>>

\* get_partial_audio lines 65-66: the list copied and encoded; on the empty
\* list a start() in between has put there np.concatenate raises, outside
\* the try block of the loop, and the thread ends
LoopSnapshotCopyOf(s) ==
    \E p \in 1..Len(previews) :
        /\ LoopAt(p, s, "copy")
        /\ IF ToWav(frames).kind = "raised" THEN LoopEnd(p)
           ELSE LoopStep(p, [previews[p] EXCEPT !.pc = "stt"])
        /\ UNCHANGED <<partial_text, published>>

\* lines 219-220: the partial transcription and the comparison with the
\* last preview
LoopTranscribeOf(s) ==
    \E p \in 1..Len(previews) :
        /\ LoopAt(p, s, "stt")
        /\ \E t \in PartialResults :
              LoopStep(p, IF IsNew(t, partial_text)
                          THEN [previews[p] EXCEPT !.pc = "publish", !.text = t]
                          ELSE [previews[p] EXCEPT !.pc = "sleep"])
        /\ UNCHANGED <<partial_text, published>>

\* lines 221-223: the text kept as the last preview and handed to the
\* indicator
LoopPublishOf(s) ==
    \E p \in 1..Len(previews) :
        /\ LoopAt(p, s, "publish")
        /\ partial_text' = previews[p].text
        /\ published' = Published(published, previews[p].text)
        /\ LoopStep(p, [previews[p] EXCEPT !.pc = "sleep", !.text = None])

LoopCondition == \E s \in Sessions : LoopConditionOf(s)
LoopWake == \E s \in Sessions : LoopWakeOf(s)
LoopSnapshotCheck == \E s \in Sessions : LoopSnapshotCheckOf(s)
LoopSnapshotCopy == \E s \in Sessions : LoopSnapshotCopyOf(s)
LoopTranscribe == \E s \in Sessions : LoopTranscribeOf(s)
LoopPublish == \E s \in Sessions : LoopPublishOf(s)

NextPreview ==
    \/ AppPttDown
    \/ AppPttUp
    \/ AppHfDown
    \/ AppHfUp
    \/ AudioCallback
    \/ LoopCondition
    \/ LoopWake
    \/ LoopSnapshotCheck
    \/ LoopSnapshotCopy
    \/ LoopTranscribe
    \/ LoopPublish

\* ------------------------------------------------------------------------
\* The key handlers with a capture device that can fail to open.  The
\* final-processing tasks and the preview loops, which write neither the
\* state of the InputManager nor the running flag, do not run here.
\* ------------------------------------------------------------------------
\* _on_recording_start when sd.InputStream(...) or its start() raises
\* (audio_capture.py lines 30-37): lines 28-29 are done, there is no running
\* stream, and the exception leaves _on_recording_start at line 124 and the
\* key handler, whose state is set already
OnRecordingStartRaises ==
    /\ frames' = <<>>
    /\ is_recording' = FlagOnStart(FALSE)
    /\ stream_open' = FALSE
    /\ sessions' = sessions + 1
    /\ captured' = 0
    /\ fate' = Append(fate, [Recording EXCEPT !.overlap = stream_open])
    /\ UNCHANGED <<partial_text, published, tray_is_recording, tray_title,
                   indicator_visible, previews, is_processing, llm, workers,
                   captureVars>>

\* the callbacks an event handler fired, the capture device opening or not
RunCallbacksOn(fired, opened) ==
    IF fired = <<>> THEN UNCHANGED <<audioVars, appVars>>
    ELSE IF Head(fired) = "start"
    THEN IF opened THEN OnRecordingStart ELSE OnRecordingStartRaises
    ELSE OnRecordingStop

\* a push-to-talk key event reaches _on_ptt_event
RecPttEvent(type) ==
    \E opened \in BOOLEAN :
        LET r == OnPttEvent(state, type) IN
        /\ WithinSessions(r.fired)
        /\ state' = r.state
        /\ RunCallbacksOn(r.fired, opened)
        /\ UNCHANGED <<last_hf_time, now, log, keyVars, fmtVars>>

\* a hands-free key event reaches _on_hf_event, dt ticks after the clock
\* was last read
RecHfEvent(type) ==
    \E opened \in BOOLEAN :
    \E dt \in (IF type = "down" THEN {0, DEBOUNCE} ELSE {0}) :
        LET r == OnHfEvent(state, last_hf_time, now + dt, type) IN
        /\ now + dt <= StartTime + MaxAppTicks
        /\ WithinSessions(r.fired)
        /\ now' = now + dt
        /\ state' = r.state
        /\ last_hf_time' = r.last
        /\ RunCallbacksOn(r.fired, opened)
        /\ UNCHANGED <<log, keyVars, fmtVars>>

RecPttDown == RecPttEvent("down")
RecPttUp == RecPttEvent("up")
RecHfDown == RecHfEvent("down")
RecHfUp == RecHfEvent("up")

NextRecorder == RecPttDown \/ RecPttUp \/ RecHfDown \/ RecHfUp \/ AudioCallback

\* ------------------------------------------------------------------------
\* Specifications
\* ------------------------------------------------------------------------
\* the InputManager fed with key events, the formatter not called
SpecInput == InitInput /\ [][NextInput]_vars

\* the InputManager fed with the same key events, for the properties of
\* the pairing of its callbacks and of its debounce timestamp
SpecInputPairs == InitInput /\ [][NextInput]_vars

\* the InputManager from its construction: any two key names in the
\* settings, start() and the events of the hooked keys
SpecKeys == InitKeys /\ [][NextKeys]_vars

\* the key handlers and the AudioCapture they start and stop, the capture
\* device failing to open or not
SpecRecorder == InitApp /\ [][NextRecorder]_vars

\* one format_text call, the InputManager untouched
SpecFormat == InitFormat /\ [][NextFormat]_vars

\* the application: key events, the capture device and the worker threads
SpecApp == InitApp /\ [][NextApp]_vars

\* AudioCapture alone, its three threads interleaved statement by statement
SpecAudio == InitAudio /\ [][NextAudio]_vars

\* the recordings and their preview loops, every loop scheduled until it
\* ends: a loop that can take its next step takes it, its sleep ending and
\* every call it makes returning or raising
SpecPreview ==
    /\ InitApp /\ [][NextPreview]_vars
    /\ \A s \in Sessions :
          /\ WF_vars(LoopConditionOf(s)) /\ WF_vars(LoopWakeOf(s))
          /\ WF_vars(LoopSnapshotCheckOf(s)) /\ WF_vars(LoopSnapshotCopyOf(s))
          /\ WF_vars(LoopTranscribeOf(s)) /\ WF_vars(LoopPublishOf(s))

\* the application with final-processing tasks that are scheduled until
\* they end: a thread that can take its next step takes it, every call it
\* makes returning or raising
SpecAppLive ==
    /\ InitApp /\ [][NextApp]_vars
    /\ WF_vars(CheckDuration) /\ WF_vars(GetAudioData) /\ WF_vars(EncodeSnapshot)
    /\ WF_vars(Transcribe) /\ WF_vars(Format) /\ WF_vars(Output)
    /\ WF_vars(Finally) /\ WF_vars(Cleanup)

\* ------------------------------------------------------------------------
\* Properties of the InputManager (checked under SpecInput)
\* ------------------------------------------------------------------------
IsEv(i, key, type) == log[i].key = key /\ log[i].type = type

\* how many times callback cb was fired by the events lo..hi of the log
FiredIn(lo, hi, cb) ==
    Cardinality({p \in UNION {{<<i, k>> : k \in 1..Len(log[i].fired)} : i \in lo..hi} :
                    log[p[1]].fired[p[2]] = cb})

\* an HF key-down that passed the debounce check
Accepted(i) == IsEv(i, "hf", "down") /\ log[i].t - log[i].pre_last >= DEBOUNCE

\* C1: a PTT key-down in Idle fires start once and enters RecordingPTT; up to
\* and including the next PTT key-up exactly one start and one stop have
\* fired and the state is Idle again; a PTT key-down while RecordingPTT fires
\* nothing and stays RecordingPTT; every PTT key-up while RecordingPTT fires
\* stop exactly once.
C1_PttCycle ==
    /\ \A i \in 1..Len(log) :
          IsEv(i, "ptt", "down") /\ log[i].pre = IDLE =>
              log[i].fired = <<"start">> /\ log[i].post = RECORDING_PTT
    /\ \A i \in 1..Len(log) : \A j \in (i + 1)..Len(log) :
          ( /\ IsEv(i, "ptt", "down") /\ log[i].pre = IDLE
            /\ IsEv(j, "ptt", "up")
            /\ \A k \in (i + 1)..(j - 1) : ~IsEv(k, "ptt", "up") ) =>
              /\ FiredIn(i, j, "start") = 1
              /\ FiredIn(i, j, "stop") = 1
              /\ log[j].post = IDLE
    /\ \A i \in 1..Len(log) :
          IsEv(i, "ptt", "down") /\ log[i].pre = RECORDING_PTT =>
              log[i].fired = <<>> /\ log[i].post = RECORDING_PTT
    /\ \A i \in 1..Len(log) :
          IsEv(i, "ptt", "up") /\ log[i].pre = RECORDING_PTT =>
              log[i].fired = <<"stop">>

\* a PTT key-down in Idle, a repeated key-down, then the key-up
C1_Witness ==
    \E i \in 1..Len(log) :
        /\ i + 2 <= Len(log)
        /\ IsEv(i, "ptt", "down") /\ log[i].pre = IDLE
        /\ IsEv(i + 1, "ptt", "down")
        /\ IsEv(i + 2, "ptt", "up") /\ log[i + 2].post = IDLE

\* C2: an HF key-down less than 300 ms after the previous accepted HF
\* key-down changes nothing and fires nothing; of two successive HF key-downs
\* 100 ms apart of which the first toggled, the second does not toggle; of
\* two successive HF key-downs 500 ms apart the second toggles as well
\* (unless a PTT recording is in progress, which C4 covers).
C2_Debounce ==
    /\ \A i \in 1..Len(log) :
          IsEv(i, "hf", "down") /\ log[i].t - log[i].pre_last < DEBOUNCE =>
              /\ log[i].post = log[i].pre
              /\ log[i].post_last = log[i].pre_last
              /\ log[i].fired = <<>>
    /\ \A i \in 1..Len(log) : \A j \in (i + 1)..Len(log) :
          ( /\ IsEv(i, "hf", "down") /\ IsEv(j, "hf", "down")
            /\ \A k \in (i + 1)..(j - 1) : ~IsEv(k, "hf", "down") ) =>
              /\ (log[j].t - log[i].t = 1 /\ log[i].post # log[i].pre) =>
                     (log[j].post = log[j].pre /\ log[j].fired = <<>>)
              /\ (log[j].t - log[i].t = 5 /\ log[j].pre # RECORDING_PTT) =>
                     (log[j].post # log[j].pre /\ Len(log[j].fired) = 1)

\* three HF key-downs: the first toggles, the second 100 ms later is
\* discarded, the third 500 ms after the second toggles
C2_Witness ==
    \E i \in 1..Len(log) :
        /\ i + 2 <= Len(log)
        /\ IsEv(i, "hf", "down") /\ log[i].post = RECORDING_HF
        /\ IsEv(i + 1, "hf", "down") /\ log[i + 1].t = log[i].t + 1
        /\ log[i + 1].post = RECORDING_HF
        /\ IsEv(i + 2, "hf", "down") /\ log[i + 2].t = log[i + 1].t + 5
        /\ log[i + 2].post = IDLE

\* C3: an accepted HF key-down in Idle enters RecordingHandsFree and fires
\* start exactly once; an accepted HF key-down in RecordingHandsFree returns
\* to Idle and fires stop exactly once; an HF key-up changes nothing and
\* fires nothing.
C3_HfToggle ==
    \A i \in 1..Len(log) :
        /\ Accepted(i) /\ log[i].pre = IDLE =>
              log[i].post = RECORDING_HF /\ log[i].fired = <<"start">>
        /\ Accepted(i) /\ log[i].pre = RECORDING_HF =>
              log[i].post = IDLE /\ log[i].fired = <<"stop">>
        /\ IsEv(i, "hf", "up") =>
              log[i].post = log[i].pre /\ log[i].fired = <<>>

\* hands-free switched on, the key released long after, and switched off
C3_Witness ==
    \E i \in 1..Len(log) :
        /\ i + 2 <= Len(log)
        /\ Accepted(i) /\ log[i].pre = IDLE
        /\ IsEv(i + 1, "hf", "up") /\ log[i + 1].t - log[i].t >= DEBOUNCE
        /\ Accepted(i + 2) /\ log[i + 2].pre = RECORDING_HF

\* C4: an HF key-down while RecordingPTT leaves the state RecordingPTT and
\* fires nothing; the state leaves RecordingPTT only on a PTT key-up.
C4_PttPriority ==
    \A i \in 1..Len(log) :
        /\ IsEv(i, "hf", "down") /\ log[i].pre = RECORDING_PTT =>
              log[i].post = RECORDING_PTT /\ log[i].fired = <<>>
        /\ log[i].pre = RECORDING_PTT /\ log[i].post # RECORDING_PTT =>
              IsEv(i, "ptt", "up")

\* an HF key-down past the debounce window arrives during a PTT recording,
\* which the PTT key-up then ends
C4_Witness ==
    \E i \in 1..Len(log) :
        /\ i + 1 <= Len(log)
        /\ Accepted(i) /\ log[i].pre = RECORDING_PTT
        /\ IsEv(i + 1, "ptt", "up") /\ log[i + 1].fired = <<"stop">>

\* ------------------------------------------------------------------------
\* Properties of format_text (checked under SpecFormat)
\* ------------------------------------------------------------------------
NotPrimary(m) == m # model_name

\* the order in which format_text is to try the models: the primary, then
\* the fallback list without the primary
ExpectedOrder == <<model_name>> \o SelectSeq(FALLBACK_MODELS, NotPrimary)

\* the calls of backoff procedure p, and those followed by a sleep
CallsIn(p) == {i \in 1..Len(calls) : calls[i].proc = p}
SleepsIn(p) == {i \in CallsIn(p) : calls[i].slept}

NonRetryable == {"auth", "notfound", "other"}

\* after call i the procedure of that call is over and format_text has gone
\* straight on: to the next model of the order, or to returning raw_text
AbortedAfter(i) ==
    LET p == calls[i].proc IN
    /\ ~calls[i].slept
    /\ i < Len(calls) =>
          /\ calls[i + 1].proc = p + 1
          /\ p + 1 <= Len(ExpectedOrder)
          /\ calls[i + 1].model = ExpectedOrder[p + 1]
    /\ i = Len(calls) =>
          IF p < Len(ExpectedOrder)
          THEN /\ f_pc = "backoff" /\ attempt = 0
               /\ Len(procs) = p + 1 /\ model = ExpectedOrder[p + 1]
          ELSE f_pc = "done" /\ result = raw_text

\* C5: format_text never raises; what it returns is a string, namely the
\* (trimmed) text of the model call that succeeded, or, when no call
\* succeeded and every model of the order was tried, raw_text unchanged.
C5_NeverFailsOutward ==
    /\ f_pc # "raised"
    /\ f_pc = "done" =>
          /\ result # None /\ IsString(result)
          /\ \/ /\ calls # <<>>
                /\ calls[Len(calls)].kind = "ok"
                /\ result = Strip(calls[Len(calls)].text)
             \/ /\ \A i \in 1..Len(calls) : calls[i].kind # "ok"
                /\ procs = ExpectedOrder
                /\ \A p \in 1..Len(procs) : CallsIn(p) # {}
                /\ result = raw_text

\* every model failed, by throttling, by an error and by a response without
\* text, and a raw text with surrounding white space came back as it was
C5_Witness ==
    /\ f_pc = "done"
    /\ result = raw_text /\ Strip(raw_text) # raw_text
    /\ Len(procs) = 3
    /\ \E i \in 1..Len(calls) : calls[i].kind = "throttled"
    /\ \E i \in 1..Len(calls) : calls[i].kind = "auth"
    /\ \E i \in 1..Len(calls) : calls[i].kind = "other"

\* C6: one backoff procedure makes at most 6 calls and at most 5 sleeps; when
\* its 6th call is throttled too, it ends without a sleep and without a
\* further call to that model.
C6_BoundedRetry ==
    /\ \A p \in 1..Len(procs) :
          /\ Cardinality(CallsIn(p)) <= MAX_RETRIES + 1
          /\ Cardinality(SleepsIn(p)) <= MAX_RETRIES
    /\ \A i \in 1..Len(calls) :
          ( /\ calls[i].kind = "throttled"
            /\ Cardinality({k \in CallsIn(calls[i].proc) : k <= i}) = MAX_RETRIES + 1 )
          => AbortedAfter(i)

\* a model throttled six times in a row, five sleeps in between
C6_Witness ==
    \E p \in 1..Len(procs) :
        /\ Cardinality(CallsIn(p)) = MAX_RETRIES + 1
        /\ Cardinality(SleepsIn(p)) = MAX_RETRIES
        /\ \A i \in CallsIn(p) : calls[i].kind = "throttled"
        /\ f_pc = "done"

\* C7: a call that fails with an authentication error, a model-not-found
\* error or an unclassified error is followed by no sleep and no further
\* call to that model: format_text goes straight to the next model (or
\* returns raw_text); when it is the procedure's first call, the procedure
\* consists of that one call and no sleep.
C7_NonRetryableAbort ==
    \A i \in 1..Len(calls) :
        calls[i].kind \in NonRetryable =>
            /\ AbortedAfter(i)
            /\ \A k \in CallsIn(calls[i].proc) : k <= i
            /\ (\A k \in CallsIn(calls[i].proc) : k >= i) =>
                   /\ CallsIn(calls[i].proc) = {i}
                   /\ SleepsIn(calls[i].proc) = {}

\* the primary's first call fails with an authentication error and the next
\* call goes to the first fallback model
C7_Witness ==
    /\ Len(calls) >= 2
    /\ calls[1].kind = "auth" /\ calls[1].model = model_name
    /\ calls[2].model = ExpectedOrder[2]
    /\ \E i \in 1..Len(calls) : calls[i].kind = "notfound"
    /\ \E i \in 1..Len(calls) : calls[i].kind = "other"

\* C8: when the primary's first call is throttled and its second succeeds,
\* format_text has returned that call's (trimmed) text, exactly one sleep
\* was made, and no other call, so none to a fallback model, was made.
C8_ThrottleThenSucceed ==
    ( /\ Len(calls) >= 2
      /\ calls[1].kind = "throttled" /\ calls[1].model = model_name
      /\ calls[2].kind = "ok" /\ calls[2].model = model_name )
    =>  /\ f_pc = "done"
        /\ result = Strip(calls[2].text)
        /\ Cardinality({i \in 1..Len(calls) : calls[i].slept}) = 1
        /\ Len(calls) = 2
        /\ procs = <<model_name>>

\* the primary throttled once and then answered with a text that trims to
\* the empty string
C8_Witness ==
    /\ Len(calls) = 2
    /\ calls[1].kind = "throttled" /\ calls[1].model = model_name
    /\ calls[2].kind = "ok" /\ calls[2].text = <<" ">>
    /\ f_pc = "done"

\* C9: the procedures run are a prefix of the order primary, fallbacks in
\* list order without the primary; no model gets two procedures; a procedure
\* is started only after every earlier one ended without a result; nothing
\* is called after a success, whose text is what is returned.
C9_FallbackOrder ==
    /\ f_pc \in {"backoff", "done"} =>
          /\ procs # <<>>
          /\ Len(procs) <= Len(ExpectedOrder)
          /\ procs = SubSeq(ExpectedOrder, 1, Len(procs))
    /\ \A p \in 1..Len(procs) : \A q \in 1..Len(procs) :
          procs[p] = procs[q] => p = q
    /\ \A i \in 1..Len(calls) :
          /\ calls[i].proc \in 1..Len(procs)
          /\ calls[i].model = procs[calls[i].proc]
          /\ i < Len(calls) =>
                /\ calls[i].kind # "ok"
                /\ calls[i + 1].proc \in {calls[i].proc, calls[i].proc + 1}
                /\ calls[i + 1].proc # calls[i].proc => ~calls[i].slept
    /\ \A p \in 1..(Len(procs) - 1) :
          /\ CallsIn(p) # {}
          /\ \A i \in CallsIn(p) : calls[i].kind # "ok"
    /\ (calls # <<>> /\ calls[Len(calls)].kind = "ok") =>
          f_pc = "done" /\ result = Strip(calls[Len(calls)].text)

\* the primary is the second entry of the fallback list: it fails, the
\* first entry is tried and succeeds, and the primary is not tried again
C9_Witness ==
    /\ model_name = FALLBACK_MODELS[2]
    /\ procs = <<FALLBACK_MODELS[2], FALLBACK_MODELS[1]>>
    /\ calls[Len(calls)].kind = "ok"
    /\ f_pc = "done"

\* ------------------------------------------------------------------------
\* Properties of the pipeline (checked under SpecApp)
\* ------------------------------------------------------------------------
\* C10: a final-processing task whose duration check saw less than 0.3 s
\* (fewer than 4800 samples) never calls transcription, format_text or
\* output_text.
C10_ShortAbandoned ==
    \A w \in 1..Len(workers) :
        ( /\ workers[w].pc # "check"
          /\ workers[w].seen * SAMPLE_RATE < 4800 * MS_PER_SECOND )
        =>  /\ workers[w].stt = 0
            /\ workers[w].fmt = 0
            /\ workers[w].out = 0
            /\ workers[w].pc \in {"finally", "cleanup"}

\* a task that saw four blocks (4096 samples, 0.256 s) has reached its
\* finally block
C10_Witness ==
    \E w \in 1..Len(workers) :
        /\ workers[w].pc = "finally"
        /\ workers[w].seen = 256
        /\ workers[w].out = 0

\* the tasks that are between their launch and line 198, where they clear
\* the single-flight flag
InFlight == {w \in 1..Len(workers) : workers[w].pc # "cleanup"}

\* the calls a task that reaches the output stage is to have made, in order
ExpectedTrace ==
    IF llm THEN <<"transcribe", "format_text", "output_text">>
    ELSE <<"transcribe", "output_text">>

IsPrefix(a, b) == Len(a) <= Len(b) /\ a = SubSeq(b, 1, Len(a))

\* the claim C11 as stated: at most one _process_recording thread exists at
\* any time, and no two of them belong to the same recording
C11_OneTaskAlive ==
    /\ Len(workers) <= 1
    /\ \A v \in 1..Len(workers) : \A w \in 1..Len(workers) :
          workers[v].session = workers[w].session => v = w

\* C11 (amended): at most one final-processing task is between its launch
\* and line 198, and the flag is set exactly while there is one; a task is
\* launched only by the stop event of its recording, found with the flag
\* clear, so that no recording has two tasks.
C11_SingleFlight ==
    /\ Cardinality(InFlight) <= 1
    /\ is_processing <=> InFlight # {}
    /\ \A v \in 1..Len(workers) : \A w \in 1..Len(workers) :
          workers[v].session = workers[w].session => v = w
    /\ \A w \in 1..Len(workers) :
          /\ workers[w].session \in 1..Len(fate)
          /\ fate[workers[w].session].launched
          /\ ~fate[workers[w].session].busy
    /\ \A s \in 1..Len(fate) : fate[s].launched => fate[s].stopped

\* a task launched for the second recording while the task of the first is
\* still in lines 199-201
C11_Witness ==
    /\ Len(workers) = 2
    /\ workers[1].pc = "cleanup" /\ workers[1].session = 1
    /\ workers[2].pc = "stt" /\ workers[2].session = 2
    /\ is_processing

\* the claim C12 as stated: a stop event handled while a task's thread is
\* alive launches nothing, no task exists for it later, and a pipeline
\* during which a stop event was dropped has made exactly one delivery by
\* the end of its try block
C12_DroppedWhileAlive ==
    /\ \A s \in 1..Len(fate) :
          fate[s].stopped /\ fate[s].alive => ~fate[s].launched
    /\ \A s \in 1..Len(fate) : \A w \in 1..Len(workers) :
          (fate[s].stopped /\ fate[s].alive) => workers[w].session # s
    /\ \A w \in 1..Len(workers) :
          ( /\ workers[w].pc = "finally"
            /\ \E s \in (workers[w].session + 1)..Len(fate) :
                  fate[s].stopped /\ ~fate[s].launched )
          => workers[w].out = 1

\* C12 (amended): a stop event handled while the flag is set launches no
\* task, and no task exists for its recording later either; a stop event
\* handled with the flag clear launches one; a task delivers at most once,
\* and exactly once when it has reached its output stage, however many stop
\* events were dropped meanwhile.
C12_DroppedStop ==
    /\ \A s \in 1..Len(fate) :
          fate[s].stopped => (fate[s].launched <=> ~fate[s].busy)
    /\ \A s \in 1..Len(fate) : \A w \in 1..Len(workers) :
          (fate[s].stopped /\ fate[s].busy) => workers[w].session # s
    /\ \A w \in 1..Len(workers) :
          /\ workers[w].out <= 1
          /\ workers[w].out = Cardinality({i \in 1..Len(workers[w].trace) :
                                             workers[w].trace[i] = "output_text"})
          /\ (workers[w].pc = "finally" /\ workers[w].text # None
                 /\ ~workers[w].err) => workers[w].out = 1

\* the stop event of the second recording was dropped while the task of the
\* first was in its pipeline, and that task has made its one delivery
C12_Witness ==
    /\ Len(fate) = 2
    /\ fate[1].launched
    /\ fate[2].stopped /\ fate[2].busy /\ ~fate[2].launched
    /\ Len(workers) = 1
    /\ workers[1].pc = "finally" /\ workers[1].session = 1
    /\ workers[1].out = 1

\* where the task of recording s is in _process_recording, "none" when
\* there is no such thread
TaskPc(s) ==
    IF \E w \in 1..Len(workers) : workers[w].session = s
    THEN workers[CHOOSE w \in 1..Len(workers) : workers[w].session = s].pc
    ELSE "none"

TaskAlive(s) == TaskPc(s) # "none"

C14_OutputAfterTranscription ==
    \A w \in 1..Len(workers) :
        ( /\ workers[w].pc = "finally"
          /\ workers[w].raw # None /\ workers[w].raw # <<>> )
        =>  /\ workers[w].out = 1
            /\ workers[w].sent # None /\ IsString(workers[w].sent)
            /\ workers[w].err => workers[w].sent = workers[w].raw

\* C15: a task whose get_audio_data found no frame calls neither transcribe
\* nor format_text nor output_text and goes to its finally block; a task
\* whose transcription returned the empty string has called transcribe
\* once and calls neither format_text nor output_text.
C15_AbandonOnNothing ==
    \A w \in 1..Len(workers) :
        /\ workers[w].empty =>
              /\ workers[w].pc = "finally"
              /\ workers[w].trace = <<>>
              /\ workers[w].stt = 0 /\ workers[w].fmt = 0 /\ workers[w].out = 0
        /\ workers[w].raw = <<>> =>
              /\ workers[w].pc = "finally"
              /\ workers[w].trace = <<"transcribe">>
              /\ workers[w].fmt = 0 /\ workers[w].out = 0

\* a task saw 0.32 s at its duration check and then found the frame list
\* emptied by the start of the next recording
C15_Witness ==
    \E w \in 1..Len(workers) :
        /\ workers[w].empty
        /\ ~TooShort(workers[w].seen)
        /\ workers[w].pc = "finally"
        /\ sessions = workers[w].session + 1

\* C16: the calls of a task are made in the order transcribe, format_text,
\* output_text, format_text being called exactly when an LLM is configured;
\* a task that reached the output stage has made exactly these calls, each
\* once; without LLM the text delivered is the raw transcript.
C16_StageOrder ==
    \A w \in 1..Len(workers) :
        /\ IsPrefix(workers[w].trace, ExpectedTrace)
        /\ workers[w].out >= 1 =>
              /\ workers[w].trace = ExpectedTrace
              /\ workers[w].out = 1
              /\ workers[w].stt = 1
              /\ workers[w].fmt = (IF llm THEN 1 ELSE 0)
              /\ ~llm => workers[w].sent = workers[w].raw

\* without LLM a task has delivered the raw transcript
C16_Witness ==
    \E w \in 1..Len(workers) :
        /\ ~llm
        /\ workers[w].pc = "finally"
        /\ workers[w].out = 1
        /\ workers[w].sent = <<"a">>

\* ------------------------------------------------------------------------
\* Properties of AudioCapture (checked under SpecAudio)
\* ------------------------------------------------------------------------
\* the number of samples in a sequence of blocks
RECURSIVE TotalSamples(_)
TotalSamples(blocks) ==
    IF blocks = <<>> THEN 0 ELSE Len(Head(blocks)) + TotalSamples(Tail(blocks))

\* the n-th sample of a sequence of blocks taken in order
RECURSIVE SampleAt(_, _)
SampleAt(blocks, n) ==
    IF n <= Len(Head(blocks)) THEN Head(blocks)[n]
    ELSE SampleAt(Tail(blocks), n - Len(Head(blocks)))

\* the 16-bit signed integer stored little-endian in two bytes
Signed16(lo, hi) ==
    LET u == lo + 256 * hi IN IF u >= 32768 THEN u - 65536 ELSE u

\* the payload is, byte for byte, the 16-bit PCM of the blocks in order
IsPcmOf(payload, blocks) ==
    /\ Len(payload) = 2 * TotalSamples(blocks)
    /\ \A i \in 1..Len(payload) : payload[i] \in 0..255
    /\ \A n \in 1..TotalSamples(blocks) :
          Signed16(payload[2 * n - 1], payload[2 * n]) = SampleAt(blocks, n)

\* a WAV file with the header of a mono 16 kHz 16-bit recording
HasHeader(w) ==
    /\ w.kind = "wav"
    /\ w.nchannels = 1
    /\ w.sampwidth = 2
    /\ w.framerate = 16000
    /\ w.nframes * 2 = Len(w.payload)

\* the frame list the reading thread read first is still the current one
SameList == sessions = rd.session

\* C17: a get_audio_data() call entered after stop() has returned, with no
\* start() replacing the list meanwhile, returns None when no frame was
\* appended since start(), and otherwise a WAV file whose header gives one
\* channel, 2 bytes per sample and 16000 Hz and whose payload is the PCM of
\* the frames appended since start(), all of them, each once, in arrival
\* order.
C17_SnapshotAll ==
    /\ (rd.op = "all" /\ rd.pc = "encode" /\ rd.after_stop /\ SameList) =>
          /\ HasHeader(ToWav(frames))
          /\ IsPcmOf(ToWav(frames).payload, appended)
          /\ appended # <<>>
    /\ (rd.op = "all" /\ rd.pc = "done" /\ rd.after_stop /\ rd.clean) =>
          /\ rd.kind \in {"none", "wav"}
          /\ rd.kind = "none" <=> rd.empty
          /\ SameList => (rd.empty <=> appended = <<>>)
          /\ (SameList /\ rd.kind = "wav") => rd.count = Len(appended)

\* after stop() a snapshot of two or more frames was taken, the last of
\* which had been appended after stop() had cleared the running flag
C17_Witness ==
    /\ rd.op = "all" /\ rd.pc = "done" /\ rd.after_stop /\ rd.clean
    /\ rd.kind = "wav" /\ rd.count >= 2
    /\ SameList /\ hook_pc = "out"
    /\ cb_block.appended /\ ~cb_block.running

\* C18: get_partial_audio() returns None exactly when it finds no frame
\* appended; otherwise what it encodes is the frame list as it is at the
\* moment of the copy: whole frames, in arrival order, a prefix of the
\* frames appended in that recording however many are appended afterwards;
\* it raises only when a start() replaced the list between its two reads.
C18_PartialSnapshot ==
    /\ (rd.op = "partial" /\ rd.pc = "copy" /\ frames # <<>>) =>
          /\ Len(frames) <= Len(appended)
          /\ HasHeader(ToWav(frames))
          /\ IsPcmOf(ToWav(frames).payload, SubSeq(appended, 1, Len(frames)))
    /\ (rd.op = "partial" /\ rd.pc = "done") =>
          /\ rd.kind = "none" <=> rd.empty
          /\ rd.kind = "raised" => ~rd.clean
          /\ rd.kind = "wav" => rd.count >= 1
          /\ (rd.kind = "wav" /\ SameList) => rd.count <= Len(appended)

\* a partial snapshot of one or more frames, and frames appended since
C18_Witness ==
    /\ rd.op = "partial" /\ rd.pc = "done" /\ rd.kind = "wav"
    /\ SameList
    /\ rd.count >= 2
    /\ rd.count < Len(appended)

\* the claim C19 as stated: a frame is appended only at a moment when the
\* running flag is true
C19_AppendOnlyWhileRunning == cb_block.appended => cb_block.running

\* C19 (amended): a frame is appended only by a callback that read the
\* running flag as true; at the moment of the append the flag is true, or
\* stop() has cleared it and has not yet stopped the stream (between lines
\* 42 and 44); once the stream is stopped, and so once stop() has returned,
\* no callback is in progress and nothing is appended until the next
\* start().
C19_AppendAfterCheck ==
    /\ cb_block.appended =>
          /\ cb_block.read
          /\ cb_block.running \/ cb_block.hook = "stop_43"
    /\ cb_pc = "append" => (cb_block.read /\ stream_open)
    /\ ~stream_open => cb_pc = "idle"
    /\ (hook_pc = "out" /\ ~is_recording) => (~stream_open /\ frames = appended)

\* a frame was appended after stop() had cleared the flag, and stop() has
\* returned
C19_Witness ==
    /\ cb_block.appended /\ ~cb_block.running
    /\ hook_pc = "out" /\ ~is_recording
    /\ Len(frames) >= 2

\* the claim C20 as stated: the callback appends, and a snapshot call reads,
\* holding the lock, and neither is in progress while the hook thread is
\* inside start() or stop()
C20_LockSerialized ==
    /\ cb_pc = "append" => (lock = "capture" /\ hook_pc = "out")
    /\ rd.pc # "done" => (lock = "reader" /\ hook_pc = "out")
    /\ cb_block.appended => cb_block.hook = "out"

\* C20 (amended): the hook thread holds the lock exactly while it is inside
\* start() or stop(), so that their accesses to the frame list and the
\* running flag are made under the lock; no other thread ever holds it: the
\* capture callback and the snapshot calls access the frame list and the
\* flag without it, also while the hook thread is inside start() or stop().
C20_LockAroundStartStop ==
    /\ lock \in {"free", "hook"}
    /\ lock = "hook" <=> hook_pc # "out"
    /\ (frames # appended \/ is_recording # stream_open) => lock = "hook"

\* the callback is about to append and a snapshot call about to copy while
\* the hook thread is inside stop() with the lock
C20_Witness ==
    /\ hook_pc = "stop_43" /\ lock = "hook"
    /\ cb_pc = "append"
    /\ rd.op = "partial" /\ rd.pc = "copy"

\* ------------------------------------------------------------------------
\* Properties of the recording sessions (checked under SpecApp)
\* ------------------------------------------------------------------------
\* C21: at most one capture stream is open at a time: no start() is executed
\* while the stream opened by an earlier start() is not yet stopped and
\* released, every recording but the last has been stopped, and the stream
\* is open exactly while the hotkey state machine is in a recording state.
C21_OneLiveSession ==
    /\ \A s \in 1..Len(fate) : ~fate[s].overlap
    /\ \A s \in 1..(Len(fate) - 1) : fate[s].stopped
    /\ Len(fate) = sessions
    /\ stream_open <=> state # IDLE
    /\ stream_open <=> (sessions > 0 /\ ~fate[sessions].stopped)
    /\ stream_open <=> is_recording

\* a second recording is running after the first was stopped
C21_Witness ==
    /\ sessions = 2 /\ stream_open
    /\ fate[1].stopped /\ ~fate[2].stopped
    /\ state = RECORDING_HF
    /\ frames # <<>>

\* ------------------------------------------------------------------------
\* Properties of start(), stop() and get_duration (checked under SpecAudio)
\* ------------------------------------------------------------------------
\* the number of the recording during which the device delivered a block
SessionOf(block) == (0 - block[2]) \div 16

\* C22: start() leaves an empty frame list and a true running flag: the list
\* is empty from line 28 until the stream is started, the flag is true from
\* line 29 until the next stop(), and at any time every frame in the list
\* was delivered after the last reset of the list, so that a snapshot or a
\* duration taken from the list after a start() has no frame of an earlier
\* recording in it.
C22_StartResets ==
    /\ hook_pc \in {"start_29", "start_30"} => frames = <<>>
    /\ hook_pc \in {"start_30", "start_exit"} => is_recording
    /\ (hook_pc = "out" /\ stream_open) => is_recording
    /\ \A i \in 1..Len(frames) : SessionOf(frames[i]) = sessions
    /\ (rd.pc \in {"encode", "copy"} /\ frames # <<>>) =>
          LET w == ToWav(frames) IN
          \A n \in 1..(Len(w.payload) \div 4) :
              (0 - Signed16(w.payload[4 * n - 1], w.payload[4 * n])) \div 16 = sessions

\* a snapshot was taken of the first recording, and the list now holds
\* frames of the second recording
C22_Witness ==
    /\ sessions = 2 /\ frames # <<>>
    /\ rd.session = 1 /\ rd.kind = "wav" /\ rd.pc = "done"
    /\ hook_pc = "out"

\* the hook thread is inside a stop() that was called when nothing was being
\* recorded and no stream was open
InRedundantStop ==
    /\ hook_pc \in {"stop_42", "stop_43", "stop_exit", "stop_raised"}
    /\ ~stream_open
    /\ hook_pc = "stop_42" => ~is_recording

\* C23: stop() called again, or when no stream is open, raises nothing and
\* changes nothing: on its way out the running flag is false and no stream
\* is open, as after the first stop(), and from its entry to its return the
\* frame list, the flag and the stream stay as they are.
C23_StopIdempotent ==
    /\ [](/\ hook_pc # "stop_raised"
          /\ hook_pc \in {"stop_43", "stop_exit"} => ~is_recording
          /\ hook_pc = "stop_exit" => ~stream_open
          /\ (hook_pc = "out" /\ ~is_recording) => ~stream_open)
    /\ [][(InRedundantStop /\ hook_pc' # hook_pc) =>
              /\ frames' = frames
              /\ ~is_recording' /\ ~stream_open'
              /\ hook_pc' \in {"stop_43", "stop_exit", "out"}]_vars

\* stop() called again after a recording that has frames: line 43 finds no
\* stream
C23_Witness ==
    /\ hook_pc = "stop_43" /\ ~stream_open
    /\ frames # <<>> /\ sessions = 1
    /\ cb_block.appended

\* ------------------------------------------------------------------------
\* Properties of get_duration (checked under SpecApp)
\* ------------------------------------------------------------------------
\* C24: the duration of the frame list is 0 exactly when the list is empty,
\* and otherwise N/R seconds, N the samples of its frames (1024 each) and R
\* the sample rate; a task that passed the minimum-duration check read such
\* a duration; the step that appends a frame to the list does not decrease
\* the duration.
C24_Duration ==
    /\ [](/\ GetDuration(frames) = 0 <=> frames = <<>>
          /\ GetDuration(frames) * SAMPLE_RATE =
                 Len(frames) * 1024 * MS_PER_SECOND
          /\ \A w \in 1..Len(workers) :
                 workers[w].pc \in {"snapshot", "encode"} =>
                    \E n \in 1..MaxFrames :
                       workers[w].seen * SAMPLE_RATE = n * 1024 * MS_PER_SECOND)
    /\ [][(Len(frames') = Len(frames) + 1
            /\ SubSeq(frames', 1, Len(frames)) = frames) =>
              GetDuration(frames') > GetDuration(frames)]_vars

\* a task read the duration of five frames: 0.32 s
C24_Witness ==
    /\ Len(frames) = 5
    /\ GetDuration(frames) = 320
    /\ \E w \in 1..Len(workers) :
          workers[w].pc = "snapshot" /\ workers[w].seen = 320

\* ------------------------------------------------------------------------
\* Properties of the preview loops (checked under SpecPreview)
\* ------------------------------------------------------------------------
\* the preview loop launched for recording s is running
LoopOf(s) == \E p \in 1..Len(previews) : previews[p].session = s

\* the stop event of recording s was handled
Stopped(s) == s <= Len(fate) /\ fate[s].stopped

\* C25: every preview loop terminates after the stop event of its
\* recording.
C25_LoopEndsAfterStop == \A s \in Sessions : Stopped(s) ~> ~LoopOf(s)

\* ------------------------------------------------------------------------
\* Properties of the hook thread (checked under SpecApp)
\* ------------------------------------------------------------------------
\* C26: whatever final-processing tasks exist and wherever they are (in
\* format_text, with its backoff sleeps, or elsewhere), a key event can be
\* handled: a push-to-talk key-down in IDLE is handled and starts a
\* recording (the state changed, the stream opened on an empty frame list,
\* the tasks left as they were), and the capture callback can append the
\* next block.
C26_HookNotBlocked ==
    /\ []((state = IDLE /\ sessions < MaxSessions) => ENABLED AppPttDown)
    /\ []((state = RECORDING_PTT) => ENABLED AppPttUp)
    /\ []((stream_open /\ captured < MaxFrames) => ENABLED AudioCallback)
    /\ [][(state = IDLE /\ state' = RECORDING_PTT) =>
              /\ is_recording' /\ stream_open'
              /\ frames' = <<>> /\ sessions' = sessions + 1
              /\ workers' = workers]_vars
    /\ [][(Len(frames') = Len(frames) + 1) =>
              (workers' = workers /\ is_recording)]_vars

\* a task of the first recording is in format_text while the second
\* recording, started by a push-to-talk key-down, has frames
C26_Witness ==
    /\ llm
    /\ state = RECORDING_PTT /\ sessions = 2 /\ frames # <<>>
    /\ \E w \in 1..Len(workers) :
          workers[w].pc = "format" /\ workers[w].session = 1

\* ------------------------------------------------------------------------
\* Properties of the backoff waits (checked under SpecFormat)
\* ------------------------------------------------------------------------
RECURSIVE Pow2(_)
Pow2(n) == IF n = 0 THEN 1 ELSE 2 * Pow2(n - 1)

\* d_k = min(2^(k-1), 60) seconds, in half seconds
BaseDelay(k) == IF 2 * Pow2(k - 1) < 120 THEN 2 * Pow2(k - 1) ELSE 120

\* the error message of the last sleep had nothing about waiting in it
NoHint == last_wait.msg.retry_in = 0 - 1 /\ last_wait.msg.retry_delay = 0 - 1

\* C27: in a backoff procedure the base delay is 1 s before the first
\* throttling response and doubles, up to 60 s, with every throttling
\* response, whatever wait that response led to; the k-th sleep that no
\* server hint decided lasts between 0.5 and 1.5 times d_k = min(2^(k-1), 60)
\* seconds and at most 60 s.
C27_ComputedWait ==
    /\ f_pc = "backoff" =>
          (attempt <= MAX_RETRIES /\ delay = BaseDelay(attempt + 1))
    /\ last_wait.k > 0 =>
          (last_wait.k <= MAX_RETRIES /\ last_wait.base = BaseDelay(last_wait.k))
    /\ (last_wait.k > 0 /\ NoHint) =>
          /\ 2 * last_wait.wait >= BaseDelay(last_wait.k)
          /\ 2 * last_wait.wait <= 3 * BaseDelay(last_wait.k)
          /\ last_wait.wait <= 120

\* the fifth sleep of a procedure, at 1.5 times its base delay of 16 s,
\* after which the base delay is 32 s
C27_Witness ==
    /\ f_pc = "backoff" /\ attempt = 5 /\ delay = 64
    /\ last_wait.k = 5 /\ NoHint /\ last_wait.wait = 48

\* the delay a throttling error message suggests: the number of its
\* "retry in" text or, without one, of its retryDelay field
Suggested(msg) == IF msg.retry_in # 0 - 1 THEN msg.retry_in ELSE msg.retry_delay

\* C28: when the error message of a throttling response suggests a delay of
\* s seconds the sleep before the next attempt lasts exactly s + 2 seconds,
\* with no cap of 60 s, and when it suggests none the sleep is the computed
\* one. (A retryDelay field with a fraction of a second is cut to whole
\* seconds by _parse_retry_delay, so the sleep is shorter than s + 2.)
C28_ExactServerWait ==
    last_wait.k > 0 =>
        IF NoHint
        THEN 2 * last_wait.wait \in {j * last_wait.base : j \in 1..3}
        ELSE last_wait.wait = Suggested(last_wait.msg) + 4

\* ------------------------------------------------------------------------
\* Preview publication
\* ------------------------------------------------------------------------
\* C29: of the previews published since the start of the running or last
\* recording none is empty and no two in a row are the same text. (Two
\* preview loops alive at once both pass the comparison of line 220 before
\* either assigns at line 221, and both publish.)
C29_NoRepeatedPreview ==
    /\ \A i \in 1..Len(published) : published[i] # <<>>
    /\ Len(published) = 2 => published[1] # published[2]

\* ------------------------------------------------------------------------
\* Identical key bindings
\* ------------------------------------------------------------------------
\* the two key names of the settings are the same but for their case
SameKey == Lower(hotkeys.hands_free) = Lower(hotkeys.push_to_talk)

\* C30: when the hands-free key name equals the push-to-talk key name but
\* for case, start() registers the push-to-talk handler alone; every event
\* of the key is then handled by exactly one handler, _on_ptt_event, and
\* the state is never RECORDING_HF.
C30_IdenticalBindings ==
    /\ [](SameKey =>
            /\ hooks # <<>> =>
                  (Len(hooks) = 1 /\ hooks[1].handler = "ptt"
                   /\ hooks[1].key = Lower(hotkeys.push_to_talk))
            /\ state # RECORDING_HF
            /\ \A i \in 1..Len(log) : log[i].key = "ptt")
    /\ [][(SameKey /\ (KeyDown \/ KeyUp)) => Len(log') = Len(log) + 1]_vars

\* both settings name the key F2, in different case; the key is held down
\* and a push-to-talk recording runs
C30_Witness ==
    /\ hotkeys.push_to_talk = "f2" /\ hotkeys.hands_free = "F2"
    /\ hooks # <<>>
    /\ state = RECORDING_PTT
    /\ Len(log) = 1 /\ log[1].fired = <<"start">>

\* ------------------------------------------------------------------------
\* Start/stop alternation of the InputManager
\* ------------------------------------------------------------------------
\* the callbacks fired by the first n events of the log, in order
RECURSIVE AllFired(_)
AllFired(n) == IF n = 0 THEN <<>> ELSE AllFired(n - 1) \o log[n].fired

\* how many of the callbacks in the sequence fs are cb
Count(fs, cb) == Cardinality({j \in 1..Len(fs) : fs[j] = cb})

\* C31: over any sequence of PTT and HF key-down and key-up events the
\* callbacks fire alternately, start first; the number of starts less the
\* number of stops is 1 when the state is RecordingPTT or RecordingHandsFree
\* and 0 when it is Idle.
C31_Alternation ==
    LET fs == AllFired(Len(log))
        open == Count(fs, "start") - Count(fs, "stop")
    IN  /\ \A j \in 1..Len(fs) : fs[j] = IF j % 2 = 1 THEN "start" ELSE "stop"
        /\ state \in {RECORDING_PTT, RECORDING_HF} => open = 1
        /\ state = IDLE => open = 0

\* a push-to-talk recording started and stopped, then a hands-free
\* recording started
C31_Witness ==
    /\ AllFired(Len(log)) = <<"start", "stop", "start">>
    /\ state = RECORDING_HF
    /\ \E i \in 1..Len(log) : log[i].key = "ptt" /\ log[i].fired = <<"stop">>

\* ------------------------------------------------------------------------
\* Push-to-talk events during a hands-free recording
\* ------------------------------------------------------------------------
\* C36: a PTT key-down or key-up handled while the state is
\* RecordingHandsFree leaves the state as it is and fires no callback; the
\* state leaves RecordingHandsFree only on an HF key-down that passes the
\* debounce check.
C36_PttIgnoredInHandsFree ==
    \A i \in 1..Len(log) :
        /\ log[i].key = "ptt" /\ log[i].pre = RECORDING_HF =>
              /\ log[i].post = RECORDING_HF
              /\ log[i].fired = <<>>
        /\ log[i].pre = RECORDING_HF /\ log[i].post # RECORDING_HF =>
              Accepted(i)

\* during a hands-free recording the PTT key is pressed and released, and
\* then the recording is ended by an HF key-down
C36_Witness ==
    /\ Len(log) = 4
    /\ log[1].fired = <<"start">> /\ log[1].post = RECORDING_HF
    /\ IsEv(2, "ptt", "down") /\ IsEv(3, "ptt", "up")
    /\ Accepted(4) /\ log[4].fired = <<"stop">>
    /\ state = IDLE

\* ------------------------------------------------------------------------
\* The debounce timestamp
\* ------------------------------------------------------------------------
\* C37: every HF key-down that passes the debounce check sets the debounce
\* timestamp to its time, whether it toggles or is ignored in RecordingPTT,
\* and no other event changes the timestamp; so an HF key-down less than
\* 300 ms after one ignored in RecordingPTT is discarded: it changes
\* nothing and fires nothing.
C37_DebounceClock ==
    /\ \A i \in 1..Len(log) :
          log[i].post_last = IF Accepted(i) THEN log[i].t ELSE log[i].pre_last
    /\ \A i \in 1..Len(log) : \A k \in (i + 1)..Len(log) :
          (/\ Accepted(i) /\ log[i].pre = RECORDING_PTT
           /\ IsEv(k, "hf", "down") /\ log[k].t - log[i].t < DEBOUNCE) =>
              /\ log[k].post = log[k].pre
              /\ log[k].post_last = log[k].pre_last
              /\ log[k].fired = <<>>

\* an HF key-down is ignored during a push-to-talk recording; the PTT key is
\* released and within 300 ms an HF key-down arrives in Idle and is
\* discarded
C37_Witness ==
    /\ Len(log) = 4
    /\ IsEv(1, "ptt", "down") /\ log[1].fired = <<"start">>
    /\ Accepted(2) /\ log[2].pre = RECORDING_PTT /\ log[2].fired = <<>>
    /\ IsEv(3, "ptt", "up") /\ log[3].post = IDLE
    /\ IsEv(4, "hf", "down") /\ log[4].pre = IDLE
    /\ log[4].t - log[2].t < DEBOUNCE
    /\ log[4].fired = <<>> /\ state = IDLE

\* ------------------------------------------------------------------------
\* The work of one format_text call
\* ------------------------------------------------------------------------
\* the calls of the whole format_text call that were followed by a sleep
Sleeps == {i \in 1..Len(calls) : calls[i].slept}

\* C38: whatever the outcomes of its service calls, one format_text call
\* makes at most 6 calls to each model and tries at most 3 different models,
\* the primary and the two fallbacks, so at most 18 calls and 15 sleeps;
\* every step after its entry is one more service call, and it can stop
\* making calls only by returning a string.
C38_BoundedWork ==
    /\ [](/\ Len(procs) <= 3
          /\ \A p, q \in 1..Len(procs) : procs[p] = procs[q] => p = q
          /\ \A p \in 1..Len(procs) :
                procs[p] \in {model_name} \cup {FALLBACK_MODELS[k] : k \in 1..2}
          /\ \A p \in 1..Len(procs) : Cardinality(CallsIn(p)) <= 6
          /\ Len(calls) <= 18
          /\ Cardinality(Sleeps) <= 15
          /\ ~ENABLED NextFormat => (f_pc = "done" /\ IsString(result)))
    /\ [][f_pc # "start" => Len(calls') = Len(calls) + 1]_vars

\* three models throttled six times each: 18 calls, 15 sleeps, and
\* format_text has returned
C38_Witness ==
    /\ f_pc = "done"
    /\ Len(procs) = 3
    /\ Len(calls) = 18
    /\ Cardinality(Sleeps) = 15
    /\ ~ENABLED NextFormat

\* ------------------------------------------------------------------------
\* Empty responses
\* ------------------------------------------------------------------------
\* C40: a call that returns a text which is empty after trimming is the
\* last call of format_text, which returns the empty string, neither trying
\* another model nor returning raw_text; a call whose response has no text
\* at all is treated as an unclassified error: no sleep follows and
\* format_text goes on to the next model or returns raw_text.
C40_EmptyIsSuccess ==
    \A i \in 1..Len(calls) :
        /\ (calls[i].kind = "ok" /\ Strip(calls[i].text) = <<>>) =>
              /\ i = Len(calls)
              /\ f_pc = "done"
              /\ result = <<>>
              /\ result # raw_text
              /\ Len(procs) = calls[i].proc
        /\ (calls[i].kind = "other" /\ calls[i].text = None) => AbortedAfter(i)

\* the primary model, throttled once, then answers with white space only:
\* format_text returns the empty string for a non-empty raw text
C40_Witness ==
    /\ f_pc = "done"
    /\ result = <<>>
    /\ raw_text = <<"a">>
    /\ Len(procs) = 1
    /\ Len(calls) = 2
    /\ calls[1].kind = "throttled"
    /\ calls[2].kind = "ok" /\ calls[2].text = <<" ">>

\* ------------------------------------------------------------------------
\* The audio a final-processing task works on
\* ------------------------------------------------------------------------
\* C32: the snapshot a final-processing task transcribes consists of frames
\* of the recording whose stop launched the task, also when a new recording
\* was started while the task was running. (The task reads the frame list
\* of the AudioCapture when it gets to lines 159 and 164, and start() has
\* replaced the list by then.)
C32_OwnSessionAudio ==
    \A w \in 1..Len(workers) :
        workers[w].audio # None =>
            \A i \in 1..Len(workers[w].audio) :
                workers[w].audio[i][1] = workers[w].session

\* ------------------------------------------------------------------------
\* Preview loops of earlier recordings
\* ------------------------------------------------------------------------
\* C33: a preview loop publishes only during the recording it was launched
\* for: the loop of an earlier recording, if it has not ended before,
\* ends without publishing during a later one. (The loop of recording 1
\* that wakes during recording 2 reads the running flag as true, takes a
\* snapshot of recording 2 and publishes.)
C33_StaleLoopSilent ==
    [][\A s \in Sessions : LoopPublishOf(s) => s = sessions]_vars

\* ------------------------------------------------------------------------
\* Previews and the running flag
\* ------------------------------------------------------------------------
\* C34: a preview text is written to the accumulator and handed to the
\* indicator only while the recorder is running. (The loop reads the
\* running flag at line 211, before the snapshot and the transcription
\* call, and not again before lines 221-223; a stop event handled in
\* between does not keep it from publishing.)
C34_PublishOnlyWhileRecording ==
    [][\A s \in Sessions : LoopPublishOf(s) => is_recording]_vars

\* ------------------------------------------------------------------------
\* The recorder and the state machine
\* ------------------------------------------------------------------------
\* C35: after every key event handler has run, to its end or to the
\* exception of a capture device that does not open, the running flag of
\* the AudioCapture is true if and only if the state of the InputManager is
\* RecordingPTT or RecordingHandsFree.
C35_RecorderMirrorsState ==
    is_recording <=> state \in {RECORDING_PTT, RECORDING_HF}

\* the push-to-talk key is down and the capture device did not open: the
\* state is RecordingPTT, the flag is set and no stream is running
C35_Witness ==
    /\ state = RECORDING_PTT
    /\ is_recording
    /\ ~stream_open
    /\ sessions = 2 /\ fate[1].stopped

\* ------------------------------------------------------------------------
\* stop() and the capture thread
\* ------------------------------------------------------------------------
\* the hook thread is inside the with block of stop()
InStop == hook_pc \in {"stop_42", "stop_43", "stop_exit", "stop_raised"}

\* C39: stop() holds the lock from line 41 to its end, also while it waits
\* at line 44 for the stream to stop; the capture callback never waits for
\* the lock, so whenever stop() waits for the callback the callback can take
\* its last step, after which stop() can go on; every statement of stop()
\* can be executed when the hook thread is at it, and once stop() has
\* returned the lock is free and a start() can take it.
C39_StopNeverBlocked ==
    /\ cb_pc # "blocked"
    /\ InStop => lock = "hook"
    /\ hook_pc = "stop_42" => ENABLED StopFlag
    /\ hook_pc = "stop_43" =>
          \/ ENABLED StopStream
          \/ cb_pc = "append" /\ ENABLED CallbackAppend
    /\ hook_pc \in {"stop_exit", "stop_raised"} => ENABLED StopExit
    /\ hook_pc = "out" => lock = "free"
    /\ (hook_pc = "out" /\ ~is_recording /\ sessions < MaxSessions) =>
          ENABLED StartEnter

\* stop() holds the lock and waits at line 44 while the capture thread is
\* inside the callback, about to append a block
C39_Witness ==
    /\ hook_pc = "stop_43"
    /\ lock = "hook"
    /\ stream_open
    /\ cb_pc = "append"
    /\ ~ENABLED StopStream

====
